---------------------------- MODULE Spec2Model ----------------------------
(***************************************************************************)
(* A model of the cloze flashcard generator: the text model (parsing a     *)
(* corpus line into words, punctuation and multi-word expressions), the    *)
(* flashcard model (the five-part SimpleClozeFlashcard and its             *)
(* reconstruction from the stored form), the selection algorithm and the   *)
(* persistence check, driven by repeated runs of main.                     *)
(*                                                                         *)
(* A Python str is modelled as a sequence of one-character strings, so     *)
(* that splitting, concatenating and re-parsing are computed, not assumed. *)
(***************************************************************************)
EXTENDS Integers, Sequences, FiniteSets, TLC

(***************************************************************************)
(* Characters                                                              *)
(***************************************************************************)
\* Resources.punctuationChars
punctuationChars == {"\"", ",", ".", "?", "_"}

Digits == {"0", "1", "2", "3", "4", "5", "6", "7", "8", "9"}

Letters ==
    {"a", "b", "c", "d", "e", "f", "g", "h", "i", "j", "k", "l", "m",
     "n", "o", "p", "q", "r", "s", "t", "u", "v", "w", "x", "y", "z"}

\* str.isspace, str.isdigit, str.isalpha on one character; the only
\* whitespace of the lines modelled is the space
isspace(c) == c = " "
isdigit(c) == c \in Digits
isalpha(c) == c \in Letters

\* the regular expression class \w
IsWordChar(c) == isalpha(c) \/ isdigit(c) \/ c = "_"

(***************************************************************************)
(* Generic string helpers (Python built-ins)                               *)
(***************************************************************************)
RECURSIVE Reverse(_)
Reverse(s) == IF s = <<>> THEN <<>> ELSE Append(Reverse(Tail(s)), Head(s))

\* the length of the longest prefix of s whose characters are all in P
RECURSIVE LeadRun(_, _)
LeadRun(s, P) ==
    IF s # <<>> /\ Head(s) \in P THEN 1 + LeadRun(Tail(s), P) ELSE 0

TrailRun(s, P) == LeadRun(Reverse(s), P)

\* str.split(): the maximal runs of non-whitespace characters
RECURSIVE SplitAcc(_, _, _)
SplitAcc(s, cur, acc) ==
    IF s = <<>>
    THEN IF cur = <<>> THEN acc ELSE Append(acc, cur)
    ELSE IF isspace(Head(s))
         THEN SplitAcc(Tail(s), <<>>, IF cur = <<>> THEN acc ELSE Append(acc, cur))
         ELSE SplitAcc(Tail(s), Append(cur, Head(s)), acc)

split(s) == SplitAcc(s, <<>>, <<>>)

\* str.split(sep) for a one-character separator: empty parts are kept
RECURSIVE SplitOnAcc(_, _, _, _)
SplitOnAcc(s, sep, cur, acc) ==
    IF s = <<>>
    THEN Append(acc, cur)
    ELSE IF Head(s) = sep
         THEN SplitOnAcc(Tail(s), sep, <<>>, Append(acc, cur))
         ELSE SplitOnAcc(Tail(s), sep, Append(cur, Head(s)), acc)

splitOn(s, sep) == SplitOnAcc(s, sep, <<>>, <<>>)

\* sep.join(parts)
RECURSIVE join(_, _)
join(sep, parts) ==
    IF parts = <<>> THEN <<>>
    ELSE IF Len(parts) = 1 THEN parts[1]
    ELSE parts[1] \o sep \o join(sep, Tail(parts))

\* int(s) for a string of decimal digits
DigitValue(c) == CHOOSE v \in 0..9 : <<"0", "1", "2", "3", "4", "5", "6", "7", "8", "9">>[v + 1] = c

RECURSIVE int(_)
int(s) == IF s = <<>> THEN 0 ELSE 10 * int(SubSeq(s, 1, Len(s) - 1)) + DigitValue(s[Len(s)])

(***************************************************************************)
(* Text model: parsing (utils.py)                                          *)
(***************************************************************************)
BEFORE == "BEFORE"
AFTER == "AFTER"
ALONE == "ALONE"

Punctuation(character, wordPosition) ==
    [character |-> character, wordPosition |-> wordPosition]

\* dict.get(key, []) / appending to the list under a key created on demand
DictGet(d, k) == IF k \in DOMAIN d THEN d[k] ELSE <<>>
DictAppend(d, k, v) ==
    [x \in DOMAIN d \cup {k} |-> IF x = k THEN Append(DictGet(d, k), v) ELSE d[x]]
DictTouch(d, k) == [x \in DOMAIN d \cup {k} |-> DictGet(d, x)]

\* processPunctuation: strips the leading and trailing punctuation runs of one
\* whitespace-delimited chunk and records them at realIndex.
processPunctuation(subString, punctuationDict, realIndex) ==
    LET lead == LeadRun(subString, punctuationChars)
        rest == SubSeq(subString, lead + 1, Len(subString))
        trail == TrailRun(rest, punctuationChars)
        group1 == SubSeq(subString, 1, lead)
        group2 == SubSeq(rest, 1, Len(rest) - trail)
        group3 == SubSeq(rest, Len(rest) - trail + 1, Len(rest))
        touched == DictTouch(punctuationDict, realIndex)
        withBefore == IF group1 # <<>>
                      THEN DictAppend(touched, realIndex, Punctuation(group1, BEFORE))
                      ELSE touched
        withAfter == IF group3 # <<>>
                     THEN DictAppend(withBefore, realIndex, Punctuation(group3, AFTER))
                     ELSE withBefore
    IN  IF group2 = <<>>
        THEN [wordString |-> <<>>, alonePunctuationFound |-> TRUE,
              punctuationDict |->
                  DictAppend(touched, realIndex, Punctuation(group1 \o group3, ALONE))]
        ELSE [wordString |-> group2, alonePunctuationFound |-> FALSE,
              punctuationDict |-> withAfter]

\* getWordStringAndId: "word_1" -> ("word", 1)
getWordStringAndId(wordString) ==
    LET parts == splitOn(wordString, "_")
    IN  IF Len(parts) # 2
        THEN [wordString |-> wordString, id |-> 0]
        ELSE IF ~(parts[2] # <<>> /\ \A i \in 1..Len(parts[2]) : isdigit(parts[2][i]))
             THEN [wordString |-> parts[1], id |-> 0]
             ELSE [wordString |-> parts[1], id |-> int(parts[2])]

\* min(keys, default)
RECURSIVE MinOf(_, _)
MinOf(ids, default) ==
    IF ids = <<>> THEN default
    ELSE LET m == MinOf(Tail(ids), Head(ids))
         IN  IF Head(ids) < m THEN Head(ids) ELSE m

InSeq(x, s) == \E i \in 1..Len(s) : s[i] = x

\* processMultiWordExpressions: the in-sentence expression id of a word; an
\* untagged word gets a fresh negative id, so it is an expression of its own.
\* multiWordExpressions is the sequence of ids in insertion order.
processMultiWordExpressions(wordString, multiWordExpressions) ==
    LET tagged == InSeq("_", wordString)
        parsed == getWordStringAndId(wordString)
        currentLowestExpressionId == MinOf(multiWordExpressions, 1)
        id == IF tagged THEN parsed.id
              ELSE IF currentLowestExpressionId < 0
                   THEN currentLowestExpressionId - 1
                   ELSE -1
    IN  [wordString |-> IF tagged THEN parsed.wordString ELSE wordString,
         id |-> id,
         multiWordExpressions |->
             IF InSeq(id, multiWordExpressions) THEN multiWordExpressions
             ELSE Append(multiWordExpressions, id)]

Word(wordString, multiWordExpression) ==
    [thisWordString |-> wordString, multiWordExpression |-> multiWordExpression]

\* the index of a chunk taken for the index of its marks, the alone marks
\* before it not counted off
RealIndexOfChunk(index, alonePunctuation) == index

\* realIndex = index - alonePunctuation
RealIndex(index, alonePunctuation) == index - alonePunctuation

\* Line: the words (word k of the model is Python's words[k-1]), the
\* punctuation dictionary keyed by Python index, and the in-sentence
\* expression ids in order of first appearance.
RECURSIVE ParseChunks(_, _, _, _, _)
ParseChunks(subStrings, index, words, punctuationDict, multiWordExpressions) ==
    IF index > Len(subStrings)
    THEN [words |-> words, punctuationDict |-> punctuationDict,
          multiWordExpressions |-> multiWordExpressions]
    ELSE LET alonePunctuation == (index - 1) - Len(words)
             realIndex == RealIndex(index - 1, alonePunctuation)
             p == processPunctuation(subStrings[index], punctuationDict, realIndex)
             m == processMultiWordExpressions(p.wordString, multiWordExpressions)
         IN  IF p.alonePunctuationFound
             THEN ParseChunks(subStrings, index + 1, words, p.punctuationDict,
                              multiWordExpressions)
             ELSE ParseChunks(subStrings, index + 1,
                              Append(words, Word(m.wordString, m.id)),
                              p.punctuationDict, m.multiWordExpressions)

\* parseSentenceLine without the registration step (utils.py:364-387, 395)
parseLine(line) == ParseChunks(split(line), 1, <<>>, <<>>, <<>>)


(***************************************************************************)
(* Text model: Line and MultiWordExpression (models.py)                    *)
(***************************************************************************)
OfPosition(punctuations, wordPosition) ==
    SelectSeq(punctuations, LAMBDA p : p.wordPosition = wordPosition)

\* Line.stringifyWordsAndPunctuation: the string a Line is identified by. Only
\* the first mark of each kind at an index is rendered.
RECURSIVE StringifyFrom(_, _, _, _)
StringifyFrom(words, punctuationDict, index, result) ==
    IF index >= Len(words)
    THEN result
    ELSE LET relevantPunctuation == DictGet(punctuationDict, index)
             alonePunctuation == OfPosition(relevantPunctuation, ALONE)
             beforePunctuation == OfPosition(relevantPunctuation, BEFORE)
             afterPunctuation == OfPosition(relevantPunctuation, AFTER)
             wordString ==
                 (IF beforePunctuation # <<>> THEN beforePunctuation[1].character ELSE <<>>)
                 \o words[index + 1].thisWordString
                 \o (IF afterPunctuation # <<>> THEN afterPunctuation[1].character ELSE <<>>)
         IN  StringifyFrom(words, punctuationDict, index + 1,
                 result
                 \o (IF index > 0 THEN <<" ">> ELSE <<>>)
                 \o (IF alonePunctuation # <<>>
                     THEN alonePunctuation[1].character \o <<" ">> ELSE <<>>)
                 \o wordString)

stringifyWordsAndPunctuation(words, punctuationDict) ==
    LET indexAfterWords == Len(words)
        alonePunctuation == OfPosition(DictGet(punctuationDict, indexAfterWords), ALONE)
    IN  StringifyFrom(words, punctuationDict, 0, <<>>)
        \o (IF alonePunctuation # <<>>
            THEN alonePunctuation[1].character \o <<" ">> ELSE <<>>)

\* Line.__init__: id is hash(str(self)); the model identifies a Line by the
\* string itself, that is, it takes the hash to be collision-free.
Line(words, punctuationDict) ==
    [words |-> words, punctuationDict |-> punctuationDict,
     id |-> stringifyWordsAndPunctuation(words, punctuationDict)]

\* the loop of Line.__init__ over enumerate(words): the index that
\* appendReferenceLine gives each word
appendReferenceLine(words) == [k \in 1..Len(words) |-> k - 1]

\* Line.__eq__
LineEq(line1, line2) == line1.id = line2.id

\* MultiWordExpression.words as Python indices into the line's words
RECURSIVE MweIndicesUpTo(_, _, _)
MweIndicesUpTo(words, id, n) ==
    IF n = 0 THEN <<>>
    ELSE IF words[n].multiWordExpression = id
         THEN Append(MweIndicesUpTo(words, id, n - 1), n - 1)
         ELSE MweIndicesUpTo(words, id, n - 1)

MweIndices(line, id) == MweIndicesUpTo(line.words, id, Len(line.words))

\* the expression of the word at Python index wordIndex
MweOf(line, wordIndex) == line.words[wordIndex + 1].multiWordExpression

\* MultiWordExpression.getUniqueWordId: the members' strings joined in the
\* order in which they stand in the sentence.
MweUniqueWordId(line, id) ==
    LET indices == MweIndices(line, id)
    IN  join(<<" ">>, [k \in 1..Len(indices) |-> line.words[indices[k] + 1].thisWordString])

\* Word.getUniqueWordId
getUniqueWordId(line, wordIndex) == MweUniqueWordId(line, MweOf(line, wordIndex))

getFirstIndex(line, id) == MweIndices(line, id)[1]
getLastIndex(line, id) == LET indices == MweIndices(line, id) IN indices[Len(indices)]

\* MultiWordExpression.getNumWordsBeforeSplitInCloze: the length of the first
\* run of members standing next to one another.
RECURSIVE BeforeSplitFrom(_, _, _)
BeforeSplitFrom(indices, wordNumber, currentIndex) ==
    IF wordNumber >= Len(indices) THEN Len(indices)
    ELSE IF indices[wordNumber + 1] # currentIndex + 1 THEN wordNumber
    ELSE BeforeSplitFrom(indices, wordNumber + 1, indices[wordNumber + 1])

\* every member counted as standing before the split
getNumWordsBeforeSplitCountingAll(line, id) == Len(MweIndices(line, id))

getNumWordsBeforeSplitInCloze(line, id) ==
    BeforeSplitFrom(MweIndices(line, id), 0, getFirstIndex(line, id) - 1)

getNumWordsInSplitOfCloze(line, id) ==
    (getLastIndex(line, id) - getFirstIndex(line, id) + 1) - Len(MweIndices(line, id))

getNumWordsAfterSplitInCloze(line, id) ==
    Len(MweIndices(line, id)) - getNumWordsBeforeSplitInCloze(line, id)

(***************************************************************************)
(* Ordered dictionaries with string keys: a Python dict keeps its keys in   *)
(* insertion order, so it is a sequence of [key, ...] entries.              *)
(***************************************************************************)
HasKey(dict, key) == \E k \in 1..Len(dict) : dict[k].key = key
KeyIndex(dict, key) == CHOOSE k \in 1..Len(dict) : dict[k].key = key

\* Word objects as the occurrences index holds them: the line and the index
\* given by Word.appendReferenceLine
WordRef(line, index) == [line |-> line, index |-> index]

\* addWordToClassDict
addWordToClassDict(word, uniqueWordIdToWordObjects) ==
    LET uniqueWordId == getUniqueWordId(word.line, word.index)
    IN  IF HasKey(uniqueWordIdToWordObjects, uniqueWordId)
        THEN [k \in 1..Len(uniqueWordIdToWordObjects) |->
                 IF uniqueWordIdToWordObjects[k].key = uniqueWordId
                 THEN [key |-> uniqueWordId,
                       words |-> Append(uniqueWordIdToWordObjects[k].words, word)]
                 ELSE uniqueWordIdToWordObjects[k]]
        ELSE Append(uniqueWordIdToWordObjects,
                    [key |-> uniqueWordId, words |-> <<word>>])

\* the registration loop of parseSentenceLine: the first word of every
\* expression of the line, in order of first appearance
RECURSIVE RegisterExpressions(_, _, _)
RegisterExpressions(line, multiWordExpressions, uniqueWordIdToWordObjects) ==
    IF multiWordExpressions = <<>> THEN uniqueWordIdToWordObjects
    ELSE RegisterExpressions(line, Tail(multiWordExpressions),
             addWordToClassDict(
                 WordRef(line, getFirstIndex(line, Head(multiWordExpressions))),
                 uniqueWordIdToWordObjects))

\* parseSentenceLine: the Line and the occurrences index after the call
parseSentenceLine(lineString, uniqueWordIdToWordObjects, addWordsToClassDict) ==
    LET parsed == parseLine(lineString)
        line == Line(parsed.words, parsed.punctuationDict)
    IN  [line |-> line,
         uniqueWordIdToWordObjects |->
             IF addWordsToClassDict
             THEN RegisterExpressions(line, parsed.multiWordExpressions,
                                      uniqueWordIdToWordObjects)
             ELSE uniqueWordIdToWordObjects]

(***************************************************************************)
(* Flashcard model (models.py)                                             *)
(***************************************************************************)
\* the body of the loop over punctuationDict[i] in
\* GetStringOfWordsAndPunctuation: acc is (result, wordString)
RECURSIVE ApplyPunctuation(_, _, _, _)
ApplyPunctuation(punctuations, isCloze, result, wordString) ==
    IF punctuations = <<>> THEN [result |-> result, wordString |-> wordString]
    ELSE LET punctuation == Head(punctuations)
         IN  IF punctuation.wordPosition = ALONE /\ ~isCloze
             THEN ApplyPunctuation(Tail(punctuations), isCloze,
                      result \o punctuation.character \o <<" ">>, wordString)
             ELSE IF punctuation.wordPosition = BEFORE
             THEN ApplyPunctuation(Tail(punctuations), isCloze,
                      result, punctuation.character \o wordString)
             ELSE IF punctuation.wordPosition = AFTER
             THEN ApplyPunctuation(Tail(punctuations), isCloze,
                      result, wordString \o punctuation.character)
             ELSE ApplyPunctuation(Tail(punctuations), isCloze, result, wordString)

RECURSIVE WordsAndPunctuationFrom(_, _, _, _, _)
WordsAndPunctuationFrom(line, i, nextIndex, isCloze, result) ==
    IF i >= nextIndex THEN result
    ELSE LET a == ApplyPunctuation(DictGet(line.punctuationDict, i), isCloze,
                                   result, line.words[i + 1].thisWordString)
         IN  WordsAndPunctuationFrom(line, i + 1, nextIndex, isCloze,
                 a.result \o a.wordString
                 \o (IF i < nextIndex - 1 THEN <<" ">> ELSE <<>>))

RECURSIVE TrailingAlone(_)
TrailingAlone(punctuations) ==
    IF punctuations = <<>> THEN <<>>
    ELSE (IF Head(punctuations).wordPosition = ALONE
          THEN <<" ">> \o Head(punctuations).character ELSE <<>>)
         \o TrailingAlone(Tail(punctuations))

\* ClozeFlashcard.GetStringOfWordsAndPunctuation for the words at Python
\* indices firstIndex..nextIndex-1 (leadingSpace and trailingSpace are never
\* passed by a caller and keep their default False).
GetStringOfWordsAndPunctuation(line, firstIndex, nextIndex, isCloze) ==
    WordsAndPunctuationFrom(line, firstIndex, nextIndex, isCloze, <<>>)
    \o (IF ~isCloze
        THEN TrailingAlone(DictGet(line.punctuationDict, nextIndex))
        ELSE <<>>)

SimpleClozeFlashcard(beforeCloze, midCloze, afterCloze, clozePart1, clozePart2, inUse) ==
    [beforeCloze |-> beforeCloze, midCloze |-> midCloze, afterCloze |-> afterCloze,
     clozePart1 |-> clozePart1, clozePart2 |-> clozePart2, inUse |-> inUse]

\* SimpleClozeFlashcard.__eq__: the five text fields, inUse left out
SimpleEq(a, b) ==
    /\ a.beforeCloze = b.beforeCloze
    /\ a.midCloze = b.midCloze
    /\ a.afterCloze = b.afterCloze
    /\ a.clozePart1 = b.clozePart1
    /\ a.clozePart2 = b.clozePart2

ClozeFlashcard(line, wordIndex, inUse) ==
    [line |-> line, wordIndex |-> wordIndex, inUse |-> inUse]

\* The index GetSimpleClozeFlashcard reads up to: the end of the cloze.
ClozeEnd(line, wordIndex) ==
    LET multiWordExpression == MweOf(line, wordIndex)
    IN  wordIndex + getNumWordsBeforeSplitInCloze(line, multiWordExpression)
                  + getNumWordsInSplitOfCloze(line, multiWordExpression)
                  + getNumWordsAfterSplitInCloze(line, multiWordExpression)

\* the values currentNextWordIndex takes in GetSimpleClozeFlashcard: the ends
\* of the ranges of beforeCloze, clozePart1, midCloze, clozePart2, afterCloze,
\* each range starting where the one before it ends
ClozeRanges(line, wordIndex) ==
    LET multiWordExpression == MweOf(line, wordIndex)
        end0 == wordIndex
        end1 == end0 + getNumWordsBeforeSplitInCloze(line, multiWordExpression)
        end2 == end1 + getNumWordsInSplitOfCloze(line, multiWordExpression)
        end3 == end2 + getNumWordsAfterSplitInCloze(line, multiWordExpression)
    IN  <<end0, end1, end2, end3, Len(line.words)>>

\* GetSimpleClozeFlashcard raises IndexError when the blank index, or the end
\* of the cloze counted from it, lies beyond the words of the line.
GetSimpleClozeFlashcardRaises(clozeFlashcard) ==
    \/ clozeFlashcard.wordIndex >= Len(clozeFlashcard.line.words)
    \/ ClozeEnd(clozeFlashcard.line, clozeFlashcard.wordIndex)
           > Len(clozeFlashcard.line.words)

\* ClozeFlashcard.GetSimpleClozeFlashcard. Every Word made by parseSentenceLine
\* carries a MultiWordExpression (a lone word is an expression of one member),
\* so the branch taken is the one for expressions.
GetSimpleClozeFlashcard(clozeFlashcard) ==
    LET line == clozeFlashcard.line
        wordIndex == clozeFlashcard.wordIndex
        end0 == ClozeRanges(line, wordIndex)[1]
        end1 == ClozeRanges(line, wordIndex)[2]
        end2 == ClozeRanges(line, wordIndex)[3]
        end3 == ClozeRanges(line, wordIndex)[4]
        end4 == ClozeRanges(line, wordIndex)[5]
        beforeCloze == GetStringOfWordsAndPunctuation(line, 0, end0, FALSE)
        clozePart1 == IF end0 # end1
                      THEN GetStringOfWordsAndPunctuation(line, end0, end1, TRUE)
                      ELSE <<>>
        midCloze == IF end1 # end2
                    THEN GetStringOfWordsAndPunctuation(line, end1, end2, FALSE)
                    ELSE <<>>
        clozePart2 == IF end2 # end3
                      THEN GetStringOfWordsAndPunctuation(line, end2, end3, TRUE)
                      ELSE <<>>
        afterCloze == IF end3 # end4 \/ end4 \in DOMAIN line.punctuationDict
                      THEN GetStringOfWordsAndPunctuation(line, end3, end4, FALSE)
                      ELSE <<>>
    IN  SimpleClozeFlashcard(beforeCloze, midCloze, afterCloze,
                             clozePart1, clozePart2, clozeFlashcard.inUse)

\* SimpleClozeFlashcard.toJsonableDict
toJsonableDict(simple) ==
    [beforeCloze |-> simple.beforeCloze, midCloze |-> simple.midCloze,
     afterCloze |-> simple.afterCloze, clozeWordPart1 |-> simple.clozePart1,
     clozeWordPart2 |-> simple.clozePart2,
     inUse |-> IF simple.inUse THEN "True" ELSE "False"]

\* SimpleClozeFlashcard.wordsInString: the chunks that are not punctuation only
wordsInString(string) ==
    LET words == split(string)
    IN  Cardinality({k \in 1..Len(words) :
                        \E i \in 1..Len(words[k]) : IsWordChar(words[k][i])})

\* Word.addClozeIdToString: the tag goes before the trailing punctuation
addClozeIdToString(wordString, multiWordExpressionIndex) ==
    LET trail == TrailRun(wordString, punctuationChars \ {"_"})
    IN  SubSeq(wordString, 1, Len(wordString) - trail)
        \o <<"_">> \o multiWordExpressionIndex
        \o SubSeq(wordString, Len(wordString) - trail + 1, Len(wordString))

\* lineString of createClozeFlashcardFromSimpleJsonableDict: the five stored
\* fields concatenated into one line
StoredLineString(clozeFlashcard) ==
    LET part1 == split(clozeFlashcard.clozeWordPart1)
        part2 == split(clozeFlashcard.clozeWordPart2)
        clozeWordsPart1 == [k \in 1..Len(part1) |-> addClozeIdToString(part1[k], <<"1">>)]
        clozeWordsPart2 == [k \in 1..Len(part2) |-> addClozeIdToString(part2[k], <<"1">>)]
    IN  clozeFlashcard.beforeCloze
        \o join(<<" ">>, clozeWordsPart1)
        \o clozeFlashcard.midCloze
        \o join(<<" ">>, clozeWordsPart2)
        \o clozeFlashcard.afterCloze

\* the call of parseSentenceLine in createClozeFlashcardFromSimpleJsonableDict
\* with the words of the line registered, as the default of the parameter
\* addWordsToClassDict would have it
ReconstructLineRegistering(clozeFlashcard, uniqueWordIdToWordObjects) ==
    parseSentenceLine(StoredLineString(clozeFlashcard), uniqueWordIdToWordObjects, TRUE)

\* the call of parseSentenceLine in createClozeFlashcardFromSimpleJsonableDict:
\* the line and the occurrences index after it
ReconstructLine(clozeFlashcard, uniqueWordIdToWordObjects) ==
    parseSentenceLine(StoredLineString(clozeFlashcard), uniqueWordIdToWordObjects, FALSE)

\* createClozeFlashcardFromSimpleJsonableDict: the flashcard it returns, which
\* does not depend on the occurrences index it is handed
createClozeFlashcardFromSimpleJsonableDict(clozeFlashcard) ==
    ClozeFlashcard(ReconstructLine(clozeFlashcard, <<>>).line,
                   wordsInString(clozeFlashcard.beforeCloze),
                   clozeFlashcard.inUse = "True")

(***************************************************************************)
(* Scoring (models.py). A dissimilarity is an IEEE double that is a whole  *)
(* number of units of 2^-53; the model holds it as two limbs, the number   *)
(* hi * 2^27 + lo of units, so that sums round as the doubles do and ties  *)
(* are the ties of the code. The runs modelled have                        *)
(* benefitShorterSentences False, its default, so no length score enters   *)
(* a sum.                                                                  *)
(***************************************************************************)
LimbBase == 2 ^ 27

Double(hi, lo) == [hi |-> hi, lo |-> lo]

\* the doubles 0.0 and 1.0
DoubleZero == Double(0, 0)
DoubleOne == Double(2 ^ 26, 0)

\* x < y on doubles
DoubleLess(x, y) == x.hi < y.hi \/ (x.hi = y.hi /\ x.lo < y.lo)

\* x + y on doubles: the exact sum, rounded to nearest, ties to even, at the
\* spacing of its binade (1 unit below 1.0, 2 units below 2.0, and so on)
DoubleAdd(x, y) ==
    LET lo == x.lo + y.lo
        exact == Double(x.hi + y.hi + (lo \div LimbBase), lo % LimbBase)
        spacing == IF exact.hi < 2 ^ 26 THEN 1
                   ELSE IF exact.hi < 2 ^ 27 THEN 2
                   ELSE IF exact.hi < 2 ^ 28 THEN 4 ELSE 8
        rest == exact.lo % spacing
        down == exact.lo - rest
        rounded == IF 2 * rest < spacing THEN down
                   ELSE IF 2 * rest > spacing THEN down + spacing
                   ELSE IF (down \div spacing) % 2 = 0 THEN down
                   ELSE down + spacing
    IN  Double(exact.hi + (rounded \div LimbBase), rounded % LimbBase)

RECURSIVE SumSeq(_)
SumSeq(s) == IF s = <<>> THEN 0 ELSE Head(s) + SumSeq(Tail(s))

\* Line.getUniqueWordIdVector: one dimension per key of the occurrences
\* index, the value the number of words of the line with that identity
getUniqueWordIdVector(line, uniqueWordIdToWordObjects) ==
    [k \in 1..Len(uniqueWordIdToWordObjects) |->
        Cardinality({i \in 0..(Len(line.words) - 1) :
            getUniqueWordId(line, i) = uniqueWordIdToWordObjects[k].key})]

\* the double 1 - dotProduct / (sqrt(squared1) * sqrt(squared2)) for a dot
\* product of at least 1 and squared magnitudes squared1 <= squared2 of
\* lines of up to three words
CosineDissimilarityOf ==
    <<1, 1, 1>> :> [hi |-> 0, lo |-> 0] @@ <<1, 1, 2>> :> [hi |-> 19655731, lo |-> 25216052] @@
    <<1, 1, 3>> :> [hi |-> 28363543, lo |-> 40881379] @@ <<1, 1, 4>> :> [hi |-> 33554432, lo |-> 0] @@
    <<2, 1, 4>> :> [hi |-> 0, lo |-> 0] @@ <<1, 1, 5>> :> [hi |-> 37096867, lo |-> 85985556] @@
    <<2, 1, 5>> :> [hi |-> 7084871, lo |-> 37753383] @@ <<1, 1, 9>> :> [hi |-> 44739242, lo |-> 89478486] @@
    <<2, 1, 9>> :> [hi |-> 22369621, lo |-> 44739243] @@ <<3, 1, 9>> :> [hi |-> 0, lo |-> 0] @@
    <<1, 2, 2>> :> [hi |-> 33554432, lo |-> 1] @@ <<2, 2, 2>> :> [hi |-> 0, lo |-> 2] @@
    <<1, 2, 3>> :> [hi |-> 39711784, lo |-> 133818850] @@ <<2, 2, 3>> :> [hi |-> 12314705, lo |-> 133419971] @@
    <<1, 2, 4>> :> [hi |-> 43382297, lo |-> 79716890] @@ <<2, 2, 4>> :> [hi |-> 19655731, lo |-> 25216052] @@
    <<1, 2, 5>> :> [hi |-> 45887177, lo |-> 115071864] @@ <<2, 2, 5>> :> [hi |-> 24665491, lo |-> 95926001] @@
    <<3, 2, 5>> :> [hi |-> 3443805, lo |-> 76780138] @@ <<1, 2, 9>> :> [hi |-> 51291153, lo |-> 8405351] @@
    <<2, 2, 9>> :> [hi |-> 35473442, lo |-> 16810702] @@ <<3, 2, 9>> :> [hi |-> 19655731, lo |-> 25216052] @@
    <<4, 2, 9>> :> [hi |-> 3838020, lo |-> 33621403] @@ <<1, 3, 3>> :> [hi |-> 44739242, lo |-> 89478485] @@
    <<2, 3, 3>> :> [hi |-> 22369621, lo |-> 44739242] @@ <<3, 3, 3>> :> [hi |-> -1, lo |-> 134217726] @@
    <<1, 3, 4>> :> [hi |-> 47736203, lo |-> 87549554] @@ <<2, 3, 4>> :> [hi |-> 28363543, lo |-> 40881379] @@
    <<3, 3, 4>> :> [hi |-> 8990882, lo |-> 128430933] @@ <<1, 3, 5>> :> [hi |-> 49781429, lo |-> 110462099] @@
    <<2, 3, 5>> :> [hi |-> 32453995, lo |-> 86706470] @@ <<3, 3, 5>> :> [hi |-> 15126561, lo |-> 62950840] @@
    <<1, 3, 9>> :> [hi |-> 54193757, lo |-> 13627126] @@ <<2, 3, 9>> :> [hi |-> 41278650, lo |-> 27254253] @@
    <<3, 3, 9>> :> [hi |-> 28363543, lo |-> 40881380] @@ <<4, 3, 9>> :> [hi |-> 15448436, lo |-> 54508506] @@
    <<5, 3, 9>> :> [hi |-> 2533329, lo |-> 68135633] @@ <<1, 4, 4>> :> [hi |-> 50331648, lo |-> 0] @@
    <<2, 4, 4>> :> [hi |-> 33554432, lo |-> 0] @@ <<3, 4, 4>> :> [hi |-> 16777216, lo |-> 0] @@
    <<4, 4, 4>> :> [hi |-> 0, lo |-> 0] @@ <<1, 4, 5>> :> [hi |-> 52102865, lo |-> 110101642] @@
    <<2, 4, 5>> :> [hi |-> 37096867, lo |-> 85985556] @@ <<3, 4, 5>> :> [hi |-> 22090869, lo |-> 61869469] @@
    <<4, 4, 5>> :> [hi |-> 7084871, lo |-> 37753383] @@ <<1, 4, 9>> :> [hi |-> 55924053, lo |-> 44739243] @@
    <<2, 4, 9>> :> [hi |-> 44739242, lo |-> 89478486] @@ <<3, 4, 9>> :> [hi |-> 33554432, lo |-> 0] @@
    <<4, 4, 9>> :> [hi |-> 22369621, lo |-> 44739243] @@ <<5, 4, 9>> :> [hi |-> 11184810, lo |-> 89478485] @@
    <<6, 4, 9>> :> [hi |-> 0, lo |-> 0] @@ <<1, 5, 5>> :> [hi |-> 53687091, lo |-> 26843546] @@
    <<2, 5, 5>> :> [hi |-> 40265318, lo |-> 53687092] @@ <<3, 5, 5>> :> [hi |-> 26843545, lo |-> 80530638] @@
    <<4, 5, 5>> :> [hi |-> 13421772, lo |-> 107374184] @@ <<5, 5, 5>> :> [hi |-> 0, lo |-> 2] @@
    <<1, 5, 9>> :> [hi |-> 57104865, lo |-> 28661852] @@ <<2, 5, 9>> :> [hi |-> 47100866, lo |-> 57323704] @@
    <<3, 5, 9>> :> [hi |-> 37096867, lo |-> 85985556] @@ <<4, 5, 9>> :> [hi |-> 27092868, lo |-> 114647407] @@
    <<5, 5, 9>> :> [hi |-> 17088870, lo |-> 9091531] @@ <<6, 5, 9>> :> [hi |-> 7084871, lo |-> 37753383] @@
    <<1, 9, 9>> :> [hi |-> 59652323, lo |-> 74565404] @@ <<2, 9, 9>> :> [hi |-> 52195783, lo |-> 14913081] @@
    <<3, 9, 9>> :> [hi |-> 44739242, lo |-> 89478486] @@ <<4, 9, 9>> :> [hi |-> 37282702, lo |-> 29826162] @@
    <<5, 9, 9>> :> [hi |-> 29826161, lo |-> 104391566] @@ <<6, 9, 9>> :> [hi |-> 22369621, lo |-> 44739243] @@
    <<7, 9, 9>> :> [hi |-> 14913080, lo |-> 119304647] @@ <<8, 9, 9>> :> [hi |-> 7456540, lo |-> 59652324] @@
    <<9, 9, 9>> :> [hi |-> 0, lo |-> 0]

\* Line.getCosDissimilarity with the normalised dot product of a vector of no
\* magnitude set to 1 where the code sets it to 0
CosDissimilarityNormalisedToOne(line1, line2, uniqueWordIdToWordObjects) ==
    LET vector1 == getUniqueWordIdVector(line1, uniqueWordIdToWordObjects)
        vector2 == getUniqueWordIdVector(line2, uniqueWordIdToWordObjects)
        dotProduct == SumSeq([k \in 1..Len(vector1) |-> vector1[k] * vector2[k]])
        squared1 == SumSeq([k \in 1..Len(vector1) |-> vector1[k] * vector1[k]])
        squared2 == SumSeq([k \in 1..Len(vector2) |-> vector2[k] * vector2[k]])
    IN  IF squared1 = 0 \/ squared2 = 0 THEN DoubleZero
        ELSE IF dotProduct = 0 THEN DoubleOne
        ELSE IF squared1 <= squared2
        THEN CosineDissimilarityOf[<<dotProduct, squared1, squared2>>]
        ELSE CosineDissimilarityOf[<<dotProduct, squared2, squared1>>]

\* the value Line.getCosDissimilarity computes when nothing is memoized: with
\* a vector of no magnitude the normalised dot product is set to 0 and the
\* value is 1 - 0
CosDissimilarity(line1, line2, uniqueWordIdToWordObjects) ==
    LET vector1 == getUniqueWordIdVector(line1, uniqueWordIdToWordObjects)
        vector2 == getUniqueWordIdVector(line2, uniqueWordIdToWordObjects)
        dotProduct == SumSeq([k \in 1..Len(vector1) |-> vector1[k] * vector2[k]])
        squared1 == SumSeq([k \in 1..Len(vector1) |-> vector1[k] * vector1[k]])
        squared2 == SumSeq([k \in 1..Len(vector2) |-> vector2[k] * vector2[k]])
    IN  IF squared1 = 0 \/ squared2 = 0 \/ dotProduct = 0 THEN DoubleOne
        ELSE IF squared1 <= squared2
        THEN CosineDissimilarityOf[<<dotProduct, squared1, squared2>>]
        ELSE CosineDissimilarityOf[<<dotProduct, squared2, squared1>>]

\* Line.getCosDissimilarity with its memo, keyed by the ordered pair of ids:
\* the value and the memo after the call
getCosDissimilarity(line1, line2, calculatedCosDissimilarities, uniqueWordIdToWordObjects) ==
    LET pair == <<line1.id, line2.id>>
    IN  IF pair \in DOMAIN calculatedCosDissimilarities
        THEN [value |-> calculatedCosDissimilarities[pair],
              calculatedCosDissimilarities |-> calculatedCosDissimilarities]
        ELSE LET cosineDissimilarity ==
                     CosDissimilarity(line1, line2, uniqueWordIdToWordObjects)
             IN  [value |-> cosineDissimilarity,
                  calculatedCosDissimilarities |->
                      [q \in DOMAIN calculatedCosDissimilarities \cup {pair} |->
                          IF q = pair THEN cosineDissimilarity
                          ELSE calculatedCosDissimilarities[q]]]

(***************************************************************************)
(* Selection (algorithms.py)                                               *)
(***************************************************************************)
CardsOf(dict, key) == IF HasKey(dict, key) THEN dict[KeyIndex(dict, key)].cards ELSE <<>>

\* dict[key].append(card), the list created when the key is new
AppendCard(dict, key, card) ==
    IF HasKey(dict, key)
    THEN [k \in 1..Len(dict) |->
             IF dict[k].key = key
             THEN [key |-> key, cards |-> Append(dict[k].cards, card)]
             ELSE dict[k]]
    ELSE Append(dict, [key |-> key, cards |-> <<card>>])

RECURSIVE AppendCards(_, _, _)
AppendCards(dict, key, cards) ==
    IF cards = <<>> THEN dict
    ELSE AppendCards(AppendCard(dict, key, Head(cards)), key, Tail(cards))

\* Word.thisInstanceInClozeFlashcards
thisInstanceInClozeFlashcards(word, clozeFlashcards) ==
    \E k \in 1..Len(clozeFlashcards) :
        /\ LineEq(clozeFlashcards[k].line, word.line)
        /\ clozeFlashcards[k].wordIndex = word.index

\* the occurrences of a key that no in-use flashcard covers
\* (mostDifferentAlgorithm, algorithms.py:155-163)
UnusedWords(words, inUseClozeFlashcardsForWord) ==
    SelectSeq(words,
        LAMBDA word : ~thisInstanceInClozeFlashcards(word, inUseClozeFlashcardsForWord))

\* the flashcard the algorithms make for an occurrence:
\* ClozeFlashcard(word.line, word.index).getSimpleClozeFlashcard()
NewSimpleClozeFlashcard(word) ==
    GetSimpleClozeFlashcard(ClozeFlashcard(word.line, word.index, FALSE))

\* preAlgorithmChecks without its first test, the one on the flashcards the
\* key has already
preAlgorithmChecksWithoutFirstTest(uniqueWordId, wordToSimpleClozeFlashcards, numFlashcardsPerWord, inUseClozeFlashcards, unusedWords) ==
    LET inUseClozeFlashcardsForWord == CardsOf(inUseClozeFlashcards, uniqueWordId)
    IN  IF Len(unusedWords) + Len(inUseClozeFlashcardsForWord) <= numFlashcardsPerWord
        THEN [wordToSimpleClozeFlashcards |->
                  AppendCards(wordToSimpleClozeFlashcards, uniqueWordId,
                      [k \in 1..Len(unusedWords) |-> NewSimpleClozeFlashcard(unusedWords[k])]),
              toContinue |-> TRUE]
        ELSE [wordToSimpleClozeFlashcards |-> wordToSimpleClozeFlashcards,
              toContinue |-> FALSE]

\* preAlgorithmChecks: the result set after the call and whether the caller
\* goes on to the next key. The test "simpleClozeFlashcard in
\* inUseClozeFlashcardsForWord" compares a SimpleClozeFlashcard with
\* ClozeFlashcard objects, both __eq__ answer NotImplemented and the test is
\* False for every flashcard, so nothing is skipped.
preAlgorithmChecks(uniqueWordId, wordToSimpleClozeFlashcards, numFlashcardsPerWord, inUseClozeFlashcards, unusedWords) ==
    LET inUseClozeFlashcardsForWord == CardsOf(inUseClozeFlashcards, uniqueWordId)
    IN  IF /\ HasKey(wordToSimpleClozeFlashcards, uniqueWordId)
           /\ Len(CardsOf(wordToSimpleClozeFlashcards, uniqueWordId)) >= numFlashcardsPerWord
        THEN [wordToSimpleClozeFlashcards |-> wordToSimpleClozeFlashcards,
              toContinue |-> TRUE]
        ELSE IF Len(unusedWords) + Len(inUseClozeFlashcardsForWord) <= numFlashcardsPerWord
        THEN [wordToSimpleClozeFlashcards |->
                  AppendCards(wordToSimpleClozeFlashcards, uniqueWordId,
                      [k \in 1..Len(unusedWords) |-> NewSimpleClozeFlashcard(unusedWords[k])]),
              toContinue |-> TRUE]
        ELSE [wordToSimpleClozeFlashcards |-> wordToSimpleClozeFlashcards,
              toContinue |-> FALSE]

\* itertools.combinations(items, n), in its order. It is never called with a
\* negative n: the first test of preAlgorithmChecks keeps those keys away.
RECURSIVE combinations(_, _)
combinations(items, n) ==
    IF n = 0 THEN << <<>> >>
    ELSE IF Len(items) < n \/ n < 0 THEN <<>>
    ELSE LET withHead == combinations(Tail(items), n - 1)
         IN  [k \in 1..Len(withHead) |-> <<Head(items)>> \o withHead[k]]
             \o combinations(Tail(items), n)

\* generateNewCombinations
generateNewCombinations(lineIds, inUseIds, n) ==
    LET combs == combinations(lineIds, n)
    IN  [k \in 1..Len(combs) |-> inUseIds \o combs[k]]

\* lineIdToWord[lineId] = word: a later word replaces an earlier one with the
\* same line id and keeps its place
PutWord(lineIdToWord, lineId, word) ==
    IF HasKey(lineIdToWord, lineId)
    THEN [k \in 1..Len(lineIdToWord) |->
             IF lineIdToWord[k].key = lineId
             THEN [key |-> lineId, word |-> word] ELSE lineIdToWord[k]]
    ELSE Append(lineIdToWord, [key |-> lineId, word |-> word])

RECURSIVE PutWords(_, _)
PutWords(lineIdToWord, words) ==
    IF words = <<>> THEN lineIdToWord
    ELSE PutWords(PutWord(lineIdToWord, Head(words).line.id, Head(words)), Tail(words))

WordOf(lineIdToWord, lineId) == lineIdToWord[KeyIndex(lineIdToWord, lineId)].word

\* the pairs (i, j), i < j, of positions of a combination, in loop order
PairsOf(n) ==
    LET idx(k) == CHOOSE p \in (1..n) \X (1..n) :
                      /\ p[1] < p[2]
                      /\ Cardinality({q \in (1..n) \X (1..n) :
                             /\ q[1] < q[2]
                             /\ (q[1] < p[1] \/ (q[1] = p[1] /\ q[2] < p[2]))}) = k - 1
    IN  [k \in 1..((n * (n - 1)) \div 2) |-> idx(k)]

\* the inner loops of findMostDifferentCombination for one combination: the
\* sum of the pairwise dissimilarities and the memo after them
RECURSIVE SumOverPairs(_, _, _, _, _, _)
SumOverPairs(pairs, combination, lineIdToWord, calculatedCosDissimilarities, uniqueWordIdToWordObjects, sumOfCosDissimilarities) ==
    IF pairs = <<>>
    THEN [sum |-> sumOfCosDissimilarities,
          calculatedCosDissimilarities |-> calculatedCosDissimilarities]
    ELSE LET line1 == WordOf(lineIdToWord, combination[Head(pairs)[1]]).line
             line2 == WordOf(lineIdToWord, combination[Head(pairs)[2]]).line
             d == getCosDissimilarity(line1, line2, calculatedCosDissimilarities,
                                      uniqueWordIdToWordObjects)
         IN  SumOverPairs(Tail(pairs), combination, lineIdToWord,
                          d.calculatedCosDissimilarities, uniqueWordIdToWordObjects,
                          DoubleAdd(sumOfCosDissimilarities, d.value))

\* findMostDifferentCombination: best is the index of the combination kept
\* so far, 0 for None
RECURSIVE FindFrom(_, _, _, _, _, _, _)
FindFrom(combinationsOfLines, k, lineIdToWord, calculatedCosDissimilarities, uniqueWordIdToWordObjects, currentHighestCosDissimilarity, currentBestCombination) ==
    IF k > Len(combinationsOfLines)
    THEN [best |-> currentBestCombination,
          calculatedCosDissimilarities |-> calculatedCosDissimilarities]
    ELSE LET r == SumOverPairs(PairsOf(Len(combinationsOfLines[k])),
                      combinationsOfLines[k], lineIdToWord,
                      calculatedCosDissimilarities, uniqueWordIdToWordObjects,
                      DoubleZero)
         IN  IF DoubleLess(currentHighestCosDissimilarity, r.sum)
             THEN FindFrom(combinationsOfLines, k + 1, lineIdToWord,
                           r.calculatedCosDissimilarities, uniqueWordIdToWordObjects,
                           r.sum, k)
             ELSE FindFrom(combinationsOfLines, k + 1, lineIdToWord,
                           r.calculatedCosDissimilarities, uniqueWordIdToWordObjects,
                           currentHighestCosDissimilarity, currentBestCombination)

findMostDifferentCombination(combinationsOfLines, lineIdToWord, calculatedCosDissimilarities, uniqueWordIdToWordObjects) ==
    FindFrom(combinationsOfLines, 1, lineIdToWord, calculatedCosDissimilarities,
             uniqueWordIdToWordObjects, DoubleZero, 0)

\* removeInUseIds
removeInUseIds(combination, inUseIds) ==
    SelectSeq(combination, LAMBDA id : ~InSeq(id, inUseIds))

\* ClozeFlashcard.GetFirstClozeWord
GetFirstClozeWord(clozeFlashcard) == WordRef(clozeFlashcard.line, clozeFlashcard.wordIndex)

\* the end of one pass with a search that, finding nothing, falls back on
\* the first combination instead of leaving the key as it is
AfterSearchTakingFirst(uniqueWordId, lineIdToWord, inUseIds, newSentenceNum, newCombinations, found, wordToSimpleClozeFlashcards) ==
    LET taken == IF found.best = 0 /\ newCombinations # <<>> THEN 1 ELSE found.best
        bestCombinationWithoutInUse ==
            removeInUseIds(newCombinations[taken], inUseIds)
        newCards == [i \in 1..Len(bestCombinationWithoutInUse) |->
                        NewSimpleClozeFlashcard(
                            WordOf(lineIdToWord, bestCombinationWithoutInUse[i]))]
    IN  [wordToSimpleClozeFlashcards |->
             IF taken = 0 THEN wordToSimpleClozeFlashcards
             ELSE AppendCards(wordToSimpleClozeFlashcards, uniqueWordId, newCards),
         calculatedCosDissimilarities |-> found.calculatedCosDissimilarities,
         search |-> [uniqueWordId |-> uniqueWordId, lineIdToWord |-> lineIdToWord,
                     inUseIds |-> inUseIds, newSentenceNum |-> newSentenceNum,
                     newCombinations |-> newCombinations,
                     bestCombination |-> found.best,
                     calculatedCosDissimilarities |->
                         found.calculatedCosDissimilarities]]

\* the end of one pass of the loop of mostDifferentAlgorithm, from the return
\* of findMostDifferentCombination on: the result set and the memo after the
\* pass, and the record of the search (bestCombination is 0 for None,
\* calculatedCosDissimilarities the memo as the search leaves it)
AfterSearch(uniqueWordId, lineIdToWord, inUseIds, newSentenceNum, newCombinations, found, wordToSimpleClozeFlashcards) ==
    LET bestCombinationWithoutInUse ==
            removeInUseIds(newCombinations[found.best], inUseIds)
        newCards == [i \in 1..Len(bestCombinationWithoutInUse) |->
                        NewSimpleClozeFlashcard(
                            WordOf(lineIdToWord, bestCombinationWithoutInUse[i]))]
    IN  [wordToSimpleClozeFlashcards |->
             IF found.best = 0 THEN wordToSimpleClozeFlashcards
             ELSE AppendCards(wordToSimpleClozeFlashcards, uniqueWordId, newCards),
         calculatedCosDissimilarities |-> found.calculatedCosDissimilarities,
         search |-> [uniqueWordId |-> uniqueWordId, lineIdToWord |-> lineIdToWord,
                     inUseIds |-> inUseIds, newSentenceNum |-> newSentenceNum,
                     newCombinations |-> newCombinations,
                     bestCombination |-> found.best,
                     calculatedCosDissimilarities |->
                         found.calculatedCosDissimilarities]]

\* one pass of the loop of mostDifferentAlgorithm for a key that
\* preAlgorithmChecks lets through: the candidates, the combinations, the search
SearchKey(uniqueWordId, unusedWords, inUseClozeFlashcardsForWord, numFlashcardsPerWord, wordToSimpleClozeFlashcards, calculatedCosDissimilarities, uniqueWordIdToWordObjects) ==
    LET lineIdToWord ==
            PutWords(PutWords(<<>>, unusedWords),
                [i \in 1..Len(inUseClozeFlashcardsForWord) |->
                    GetFirstClozeWord(inUseClozeFlashcardsForWord[i])])
        inUseIds == [i \in 1..Len(inUseClozeFlashcardsForWord) |->
                        inUseClozeFlashcardsForWord[i].line.id]
        newSentenceNum == numFlashcardsPerWord - Len(inUseClozeFlashcardsForWord)
        lineIds == SelectSeq([i \in 1..Len(lineIdToWord) |-> lineIdToWord[i].key],
                       LAMBDA lineId : ~InSeq(lineId, inUseIds))
        newCombinations == generateNewCombinations(lineIds, inUseIds, newSentenceNum)
    IN  AfterSearch(uniqueWordId, lineIdToWord, inUseIds, newSentenceNum, newCombinations,
            findMostDifferentCombination(newCombinations, lineIdToWord,
                calculatedCosDissimilarities, uniqueWordIdToWordObjects),
            wordToSimpleClozeFlashcards)

\* the loop of mostDifferentAlgorithm over the keys of the occurrences index,
\* from key number k on: the result set at the end, and for every key that
\* reached the search the record of its search
RECURSIVE MostDifferentFrom(_, _, _, _, _, _, _)
NextKey(k, uniqueWordIdToWordObjects, inUseClozeFlashcards, numFlashcardsPerWord, searches, pass) ==
    MostDifferentFrom(k + 1, uniqueWordIdToWordObjects, inUseClozeFlashcards,
        numFlashcardsPerWord, pass.wordToSimpleClozeFlashcards,
        pass.calculatedCosDissimilarities, Append(searches, pass.search))

MostDifferentFrom(k, uniqueWordIdToWordObjects, inUseClozeFlashcards, numFlashcardsPerWord, wordToSimpleClozeFlashcards, calculatedCosDissimilarities, searches) ==
    IF k > Len(uniqueWordIdToWordObjects)
    THEN [wordToSimpleClozeFlashcards |-> wordToSimpleClozeFlashcards,
          searches |-> searches]
    ELSE
    LET uniqueWordId == uniqueWordIdToWordObjects[k].key
        words == uniqueWordIdToWordObjects[k].words
        inUseClozeFlashcardsForWord == CardsOf(inUseClozeFlashcards, uniqueWordId)
        unusedWords == UnusedWords(words, inUseClozeFlashcardsForWord)
        checks == preAlgorithmChecks(uniqueWordId, wordToSimpleClozeFlashcards,
                      numFlashcardsPerWord, inUseClozeFlashcards, unusedWords)
    IN  IF checks.toContinue
        THEN MostDifferentFrom(k + 1, uniqueWordIdToWordObjects, inUseClozeFlashcards,
                 numFlashcardsPerWord, checks.wordToSimpleClozeFlashcards,
                 calculatedCosDissimilarities, searches)
        ELSE NextKey(k, uniqueWordIdToWordObjects, inUseClozeFlashcards,
                 numFlashcardsPerWord, searches,
                 SearchKey(uniqueWordId, unusedWords, inUseClozeFlashcardsForWord,
                     numFlashcardsPerWord, wordToSimpleClozeFlashcards,
                     calculatedCosDissimilarities, uniqueWordIdToWordObjects))

(***************************************************************************)
(* The run (main.py, utils.py)                                             *)
(***************************************************************************)
\* findInvalidLines without its test for two spaces in a row
findInvalidLinesWithoutSpaces(lines) ==
    SelectSeq(lines, LAMBDA line :
        \/ ~(\E i \in 1..Len(line) : isalpha(line[i]))
        \/ ~(\A i \in 1..Len(line) :
               \/ isalpha(line[i]) \/ isdigit(line[i]) \/ isspace(line[i])
               \/ line[i] = "_" \/ line[i] \in punctuationChars))

\* findInvalidLines
findInvalidLines(lines) ==
    SelectSeq(lines, LAMBDA line :
        \/ ~(\E i \in 1..Len(line) : isalpha(line[i]))
        \/ \E i \in 1..(Len(line) - 1) : line[i] = " " /\ line[i + 1] = " "
        \/ ~(\A i \in 1..Len(line) :
               \/ isalpha(line[i]) \/ isdigit(line[i]) \/ isspace(line[i])
               \/ line[i] = "_" \/ line[i] \in punctuationChars))

\* the loop of main over the corpus lines: the occurrences index at its end
RECURSIVE ParseSentenceLines(_, _)
ParseSentenceLines(sentenceLines, uniqueWordIdToWordObjects) ==
    IF sentenceLines = <<>> THEN uniqueWordIdToWordObjects
    ELSE ParseSentenceLines(Tail(sentenceLines),
             parseSentenceLine(Head(sentenceLines), uniqueWordIdToWordObjects,
                               TRUE).uniqueWordIdToWordObjects)

\* a stored file is absent (readJsonFile answers None) or a dict from key to
\* a list of stored flashcards
NoFile == [exists |-> FALSE, data |-> <<>>]
JsonFile(data) == [exists |-> TRUE, data |-> data]

\* the stored flashcards of a file, in file order
RECURSIVE StoredCards(_)
StoredCards(data) ==
    IF data = <<>> THEN <<>> ELSE Head(data).cards \o StoredCards(Tail(data))

\* the loop of makeInUseClozeFlashcards without its test of the flag inUse
AllStoredCards(file) == StoredCards(file.data)

\* the stored flashcards makeInUseClozeFlashcards reconstructs
InUseStoredCards(file) ==
    SelectSeq(StoredCards(file.data), LAMBDA clozeFlashcard : clozeFlashcard.inUse = "True")

\* GetFirstClozeWord raises IndexError when the blank index is not a word
\* of the reconstructed line
MakeInUseRaises(file) ==
    \E k \in 1..Len(InUseStoredCards(file)) :
        LET instance == createClozeFlashcardFromSimpleJsonableDict(InUseStoredCards(file)[k])
        IN  instance.wordIndex >= Len(instance.line.words)

\* makeInUseClozeFlashcards
RECURSIVE MakeInUseFrom(_, _)
MakeInUseFrom(storedCards, inUseClozeFlashcards) ==
    IF storedCards = <<>> THEN inUseClozeFlashcards
    ELSE LET clozeFlashcardInstance ==
                 createClozeFlashcardFromSimpleJsonableDict(Head(storedCards))
             uniqueWordId == getUniqueWordId(clozeFlashcardInstance.line,
                                             clozeFlashcardInstance.wordIndex)
         IN  MakeInUseFrom(Tail(storedCards),
                 AppendCard(inUseClozeFlashcards, uniqueWordId, clozeFlashcardInstance))

makeInUseClozeFlashcards(file) == MakeInUseFrom(InUseStoredCards(file), <<>>)

\* the occurrences index after makeInUseClozeFlashcards: every stored
\* flashcard flagged in use is handed the index in turn
RECURSIVE IndexAfterReconstruction(_, _)
IndexAfterReconstruction(storedCards, uniqueWordIdToWordObjects) ==
    IF storedCards = <<>> THEN uniqueWordIdToWordObjects
    ELSE IndexAfterReconstruction(Tail(storedCards),
             ReconstructLine(Head(storedCards),
                             uniqueWordIdToWordObjects).uniqueWordIdToWordObjects)

\* GetSimpleClozeFlashcard raises for some in-use flashcard
CreateInitialRaises(inUseClozeFlashcards) ==
    \E k \in 1..Len(inUseClozeFlashcards) :
        \E i \in 1..Len(inUseClozeFlashcards[k].cards) :
            GetSimpleClozeFlashcardRaises(inUseClozeFlashcards[k].cards[i])

\* a result set that starts empty instead of holding the in-use flashcards
createInitialWithoutInUse(inUseClozeFlashcards) == <<>>

\* createInitialClozeFlashcards
createInitialClozeFlashcards(inUseClozeFlashcards) ==
    [k \in 1..Len(inUseClozeFlashcards) |->
        [key |-> inUseClozeFlashcards[k].key,
         cards |-> [i \in 1..Len(inUseClozeFlashcards[k].cards) |->
                       GetSimpleClozeFlashcard(inUseClozeFlashcards[k].cards[i])]]]

\* mostDifferentAlgorithm: its return value and the searches it made
mostDifferentAlgorithm(uniqueWordIdToWordObjects, inUseClozeFlashcards, numFlashcardsPerWord) ==
    MostDifferentFrom(1, uniqueWordIdToWordObjects, inUseClozeFlashcards,
        numFlashcardsPerWord, createInitialClozeFlashcards(inUseClozeFlashcards),
        << >>, <<>>)

\* simpleClozeFlashcard in clozeFlashcards, by SimpleClozeFlashcard.__eq__
SimpleIn(simpleClozeFlashcard, clozeFlashcards) ==
    \E i \in 1..Len(clozeFlashcards) : SimpleEq(simpleClozeFlashcard, clozeFlashcards[i])

\* ensureInUseClozeFlashcardsPersist without its inner loop over the
\* flashcards of a key
ensureInUseKeysPersistExits(inUseClozeFlashcards, wordToSimpleClozeFlashcards) ==
    \E k \in 1..Len(inUseClozeFlashcards) :
        ~HasKey(wordToSimpleClozeFlashcards, inUseClozeFlashcards[k].key)

\* ensureInUseClozeFlashcardsPersist: TRUE when it calls exit(1)
ensureInUseClozeFlashcardsPersistExits(inUseClozeFlashcards, wordToSimpleClozeFlashcards) ==
    \E k \in 1..Len(inUseClozeFlashcards) :
        \/ ~HasKey(wordToSimpleClozeFlashcards, inUseClozeFlashcards[k].key)
        \/ \E i \in 1..Len(inUseClozeFlashcards[k].cards) :
               ~SimpleIn(GetSimpleClozeFlashcard(inUseClozeFlashcards[k].cards[i]),
                         CardsOf(wordToSimpleClozeFlashcards, inUseClozeFlashcards[k].key))

\* convertToJsonableFormat
convertToJsonableFormat(wordToSimpleClozeFlashcards) ==
    [k \in 1..Len(wordToSimpleClozeFlashcards) |->
        [key |-> wordToSimpleClozeFlashcards[k].key,
         cards |-> [i \in 1..Len(wordToSimpleClozeFlashcards[k].cards) |->
                       toJsonableDict(wordToSimpleClozeFlashcards[k].cards[i])]]]

\* the characters of the model in code point order, for str comparison
CodePoints ==
    <<" ", "\"", ",", ".", "0", "1", "2", "3", "4", "5", "6", "7", "8", "9", "?", "_",
      "a", "b", "c", "d", "e", "f", "g", "h", "i", "j", "k", "l", "m",
      "n", "o", "p", "q", "r", "s", "t", "u", "v", "w", "x", "y", "z">>

ord(c) == CHOOSE i \in 1..Len(CodePoints) : CodePoints[i] = c

\* str.__lt__
RECURSIVE StrLess(_, _)
StrLess(s, t) ==
    IF t = <<>> THEN FALSE
    ELSE IF s = <<>> THEN TRUE
    ELSE IF Head(s) = Head(t) THEN StrLess(Tail(s), Tail(t))
    ELSE ord(Head(s)) < ord(Head(t))

\* a sort that puts the later of two items of one key first
SortLaterFirst(items, keys) ==
    LET n == Len(items)
        rank(i) == 1 + Cardinality({j \in 1..n :
                        /\ j # i
                        /\ \/ keys[j] < keys[i]
                           \/ keys[j] = keys[i] /\ j > i})
    IN  [p \in 1..n |-> items[CHOOSE i \in 1..n : rank(i) = p]]

\* sorted(items, key = ...): stable; keys[i] is the key of items[i]
StableSort(items, keys) ==
    LET n == Len(items)
        rank(i) == 1 + Cardinality({j \in 1..n :
                        /\ j # i
                        /\ \/ keys[j] < keys[i]
                           \/ keys[j] = keys[i] /\ j < i})
    IN  [p \in 1..n |-> items[CHOOSE i \in 1..n : rank(i) = p]]

ALPHABETICAL == "ALPHABETICAL"
FREQUENCY == "FREQUENCY"
LEAST_USED_AS_CLOZE_FIRST == "LEAST_USED_AS_CLOZE_FIRST"

\* frequencies[item[0]] raises KeyError for a key that is not in the corpus
ApplyOrderRaises(order, wordToSimpleClozeFlashcards, uniqueWordIdToWordObjects) ==
    /\ order = FREQUENCY
    /\ \E k \in 1..Len(wordToSimpleClozeFlashcards) :
           ~HasKey(uniqueWordIdToWordObjects, wordToSimpleClozeFlashcards[k].key)

\* one pass of the loop over outputOrder in main. The key of the sort by
\* word is the place of the word among the words in str order; reverse = True
\* keeps the order of equal keys, as the sort by the negated key does.
ApplyOrder(order, wordToSimpleClozeFlashcards, uniqueWordIdToWordObjects) ==
    LET n == Len(wordToSimpleClozeFlashcards)
        item(k) == wordToSimpleClozeFlashcards[k]
        word(k) == Cardinality({j \in 1..n : StrLess(item(j).key, item(k).key)})
        frequencies(k) ==
            Len(uniqueWordIdToWordObjects[
                    KeyIndex(uniqueWordIdToWordObjects, item(k).key)].words)
        usedCounts(k) == Len(SelectSeq(item(k).cards, LAMBDA fc : fc.inUse))
    IN  IF order = ALPHABETICAL
        THEN StableSort(wordToSimpleClozeFlashcards, [k \in 1..n |-> word(k)])
        ELSE IF order = FREQUENCY
        THEN StableSort(wordToSimpleClozeFlashcards, [k \in 1..n |-> 0 - frequencies(k)])
        ELSE IF order = LEAST_USED_AS_CLOZE_FIRST
        THEN StableSort(wordToSimpleClozeFlashcards, [k \in 1..n |-> usedCounts(k)])
        ELSE wordToSimpleClozeFlashcards

RECURSIVE ApplyOrders(_, _, _)
ApplyOrders(orders, wordToSimpleClozeFlashcards, uniqueWordIdToWordObjects) ==
    IF orders = <<>>
    THEN [raises |-> FALSE, wordToSimpleClozeFlashcards |-> wordToSimpleClozeFlashcards]
    ELSE IF ApplyOrderRaises(Head(orders), wordToSimpleClozeFlashcards,
                             uniqueWordIdToWordObjects)
    THEN [raises |-> TRUE, wordToSimpleClozeFlashcards |-> wordToSimpleClozeFlashcards]
    ELSE ApplyOrders(Tail(orders),
             ApplyOrder(Head(orders), wordToSimpleClozeFlashcards,
                        uniqueWordIdToWordObjects),
             uniqueWordIdToWordObjects)

\* the sort of main that buries the keys of wordsToBury; None is modelled by
\* the empty list, which sorts nothing either
Bury(wordsToBury, wordToSimpleClozeFlashcards) ==
    StableSort(wordToSimpleClozeFlashcards,
        [k \in 1..Len(wordToSimpleClozeFlashcards) |->
            IF InSeq(wordToSimpleClozeFlashcards[k].key, wordsToBury) THEN 1 ELSE 0])

\* main from ensureInUseClozeFlashcardsPersist to writeJsonFile: how it ends,
\* the list outputOrder after it, the result set and the file after it
FinishRun(inUseClozeFlashcards, wordToSimpleClozeFlashcards, uniqueWordIdToWordObjects, outputOrder, wordsToBury, file) ==
    IF ensureInUseClozeFlashcardsPersistExits(inUseClozeFlashcards,
                                              wordToSimpleClozeFlashcards)
    THEN [outcome |-> "exit", outputOrder |-> outputOrder,
          wordToSimpleClozeFlashcards |-> wordToSimpleClozeFlashcards, file |-> file]
    ELSE LET ordered == ApplyOrders(Reverse(outputOrder), wordToSimpleClozeFlashcards,
                                    uniqueWordIdToWordObjects)
             buried == Bury(wordsToBury, ordered.wordToSimpleClozeFlashcards)
         IN  IF ordered.raises
             THEN [outcome |-> "KeyError", outputOrder |-> Reverse(outputOrder),
                   wordToSimpleClozeFlashcards |-> ordered.wordToSimpleClozeFlashcards,
                   file |-> file]
             ELSE [outcome |-> "written", outputOrder |-> Reverse(outputOrder),
                   wordToSimpleClozeFlashcards |-> buried,
                   file |-> JsonFile(convertToJsonableFormat(buried))]

\* main stopped before generateClozeFlashcards: an early return or an
\* exception that nothing catches
Stopped(outcome, uniqueWordIdToWordObjects, inUseClozeFlashcards, outputOrder, file) ==
    [outcome |-> outcome, uniqueWordIdToWordObjects |-> uniqueWordIdToWordObjects,
     inUseClozeFlashcards |-> inUseClozeFlashcards, wordToSimpleClozeFlashcards |-> <<>>,
     searches |-> <<>>, outputOrder |-> outputOrder, file |-> file]

\* main from the return of generateClozeFlashcards on
Generated(uniqueWordIdToWordObjects, inUseClozeFlashcards, searches, finish) ==
    [outcome |-> finish.outcome,
     uniqueWordIdToWordObjects |-> uniqueWordIdToWordObjects,
     inUseClozeFlashcards |-> inUseClozeFlashcards,
     wordToSimpleClozeFlashcards |-> finish.wordToSimpleClozeFlashcards,
     searches |-> searches,
     outputOrder |-> finish.outputOrder, file |-> finish.file]

\* main from the call of generateClozeFlashcards on
Generate(uniqueWordIdToWordObjects, inUseClozeFlashcards, generated, outputOrder, wordsToBury, file) ==
    Generated(uniqueWordIdToWordObjects, inUseClozeFlashcards, generated.searches,
        FinishRun(inUseClozeFlashcards, generated.wordToSimpleClozeFlashcards,
            uniqueWordIdToWordObjects, outputOrder, wordsToBury, file))

\* main once the in-use flashcards are read
Loaded(uniqueWordIdToWordObjects, inUseClozeFlashcards, numFlashcardsPerWord, outputOrder, wordsToBury, file) ==
    IF CreateInitialRaises(inUseClozeFlashcards)
    THEN Stopped("IndexError", uniqueWordIdToWordObjects, inUseClozeFlashcards,
                 outputOrder, file)
    ELSE Generate(uniqueWordIdToWordObjects, inUseClozeFlashcards,
             mostDifferentAlgorithm(uniqueWordIdToWordObjects, inUseClozeFlashcards,
                 numFlashcardsPerWord),
             outputOrder, wordsToBury, file)

\* main once the corpus is parsed
Parsed(uniqueWordIdToWordObjects, numFlashcardsPerWord, outputOrder, wordsToBury, file) ==
    IF MakeInUseRaises(file)
    THEN Stopped("IndexError", uniqueWordIdToWordObjects, <<>>, outputOrder, file)
    ELSE Loaded(IndexAfterReconstruction(InUseStoredCards(file),
                                         uniqueWordIdToWordObjects),
             makeInUseClozeFlashcards(file),
             numFlashcardsPerWord, outputOrder, wordsToBury, file)

\* main with a prepareSentenceLines that turns away a corpus of no lines as
\* it turns away invalid lines
RunMainWithoutEmptyCorpus(sentenceLines, numFlashcardsPerWord, outputOrder, wordsToBury, file) ==
    IF sentenceLines = <<>> \/ findInvalidLines(sentenceLines) # <<>>
    THEN Stopped("invalid lines", <<>>, <<>>, outputOrder, file)
    ELSE Parsed(ParseSentenceLines(sentenceLines, <<>>), numFlashcardsPerWord,
             outputOrder, wordsToBury, file)

\* main
RunMain(sentenceLines, numFlashcardsPerWord, outputOrder, wordsToBury, file) ==
    IF findInvalidLines(sentenceLines) # <<>>
    THEN Stopped("invalid lines", <<>>, <<>>, outputOrder, file)
    ELSE Parsed(ParseSentenceLines(sentenceLines, <<>>), numFlashcardsPerWord,
             outputOrder, wordsToBury, file)

\* the first count elements of a list: items[:count]
Slice(items, count) ==
    SubSeq(items, 1, IF count < Len(items) THEN count ELSE Len(items))

\* the loop of firstSentencesFirstAlgorithm over the keys of the occurrences
\* index, from key number k on
RECURSIVE FirstSentencesFrom(_, _, _, _, _)
FirstSentencesFrom(k, uniqueWordIdToWordObjects, inUseClozeFlashcards, numFlashcardsPerWord, wordToSimpleClozeFlashcards) ==
    IF k > Len(uniqueWordIdToWordObjects) THEN wordToSimpleClozeFlashcards
    ELSE
    LET uniqueWordId == uniqueWordIdToWordObjects[k].key
        inUseClozeFlashcardsForWord == CardsOf(inUseClozeFlashcards, uniqueWordId)
        unusedWords == UnusedWords(uniqueWordIdToWordObjects[k].words,
                                   inUseClozeFlashcardsForWord)
        checks == preAlgorithmChecks(uniqueWordId, wordToSimpleClozeFlashcards,
                      numFlashcardsPerWord, inUseClozeFlashcards, unusedWords)
        newSentenceNum == numFlashcardsPerWord - Len(inUseClozeFlashcardsForWord)
        taken == Slice(unusedWords, newSentenceNum)
    IN  FirstSentencesFrom(k + 1, uniqueWordIdToWordObjects, inUseClozeFlashcards,
            numFlashcardsPerWord,
            IF checks.toContinue THEN checks.wordToSimpleClozeFlashcards
            ELSE AppendCards(wordToSimpleClozeFlashcards, uniqueWordId,
                     [i \in 1..Len(taken) |-> NewSimpleClozeFlashcard(taken[i])]))

\* firstSentencesFirstAlgorithm
firstSentencesFirstAlgorithm(uniqueWordIdToWordObjects, inUseClozeFlashcards, numFlashcardsPerWord) ==
    FirstSentencesFrom(1, uniqueWordIdToWordObjects, inUseClozeFlashcards,
        numFlashcardsPerWord, createInitialClozeFlashcards(inUseClozeFlashcards))

\* unusedWords.sort(key = (proportion, uniqueWordId), reverse = True): the
\* words of one key have one uniqueWordId, so the proportion of the line
\* decides, the larger first, equal ones in the order they had;
\* sentenceProportions gives the proportion of every line, by id
SortByProportion(unusedWords, sentenceProportions) ==
    StableSort(unusedWords,
        [i \in 1..Len(unusedWords) |-> 0 - sentenceProportions[unusedWords[i].line.id]])

\* the loop of highestProportionOfNewWordsAlgorithm over the keys of the
\* occurrences index, from key number k on
RECURSIVE HighestProportionFrom(_, _, _, _, _, _)
HighestProportionFrom(k, uniqueWordIdToWordObjects, inUseClozeFlashcards, numFlashcardsPerWord, wordToSimpleClozeFlashcards, sentenceProportions) ==
    IF k > Len(uniqueWordIdToWordObjects) THEN wordToSimpleClozeFlashcards
    ELSE
    LET uniqueWordId == uniqueWordIdToWordObjects[k].key
        inUseClozeFlashcardsForWord == CardsOf(inUseClozeFlashcards, uniqueWordId)
        unusedWords == UnusedWords(uniqueWordIdToWordObjects[k].words,
                                   inUseClozeFlashcardsForWord)
        checks == preAlgorithmChecks(uniqueWordId, wordToSimpleClozeFlashcards,
                      numFlashcardsPerWord, inUseClozeFlashcards, unusedWords)
        taken == Slice(SortByProportion(unusedWords, sentenceProportions),
                       numFlashcardsPerWord)
    IN  HighestProportionFrom(k + 1, uniqueWordIdToWordObjects, inUseClozeFlashcards,
            numFlashcardsPerWord,
            IF checks.toContinue THEN checks.wordToSimpleClozeFlashcards
            ELSE AppendCards(wordToSimpleClozeFlashcards, uniqueWordId,
                     [i \in 1..Len(taken) |-> NewSimpleClozeFlashcard(taken[i])]),
            sentenceProportions)

\* highestProportionOfNewWordsAlgorithm, for the proportions
\* Word.getSentenceNewWordProportion gives the lines
highestProportionOfNewWordsAlgorithm(uniqueWordIdToWordObjects, inUseClozeFlashcards, numFlashcardsPerWord, sentenceProportions) ==
    HighestProportionFrom(1, uniqueWordIdToWordObjects, inUseClozeFlashcards,
        numFlashcardsPerWord, createInitialClozeFlashcards(inUseClozeFlashcards),
        sentenceProportions)

(***************************************************************************)
(* Bounds and inputs                                                       *)
(***************************************************************************)
\* the largest numFlashcardsPerWord, the most stored flashcards a learner has
\* flagged, the most runs of main, the most edits of the configuration
MaxTarget == 2
MaxInUse == 2
MaxRuns == 3
MaxEdits == 1
\* the most chunks of a line of the round trip, the most flashcards on each
\* side of the persistence check
MaxChunks == 3
MaxChecked == 2
\* the most calls of one function on the same arguments
MaxCalls == 2
\* the most chunks of a line whose ranges are carved
MaxCarved == 5
\* the levels of the proportion of new words of a sentence: 0..MaxProportion
MaxProportion == 1
\* the longest list outputOrder
MaxOrders == 2
\* the recursion limit of the interpreter, in frames of getConfigJson and
\* resetConfigFile
MaxDepth == 6
\* the most config objects of a stored appConfig.json, the largest number of
\* a stored config name, the most commands in a row
MaxConfigs == 2
MaxConfigNumber == 1
MaxCommands == 2

\* the corpora of the runs, each a list of lines as readLines returns them
Corpora ==
    { <<>>,
      << <<"a">> >>,
      << <<"a">>, <<"a", ".">> >>,
      << <<"a">>, <<"a">> >>,
      << <<"a", " ", "b">> >>,
      << <<"a", " ", "b">>, <<"a", " ", "c">> >>,
      << <<"a", " ", "b">>, <<"a", " ", "c">>, <<"a">> >>,
      << <<"a", "_", "1", " ", ",", " ", "b", "_", "1">> >>,
      << <<"a", "_", "1", " ", "b", "_", "1">>, <<"b", "_", "1", " ", "a", "_", "1">> >>,
      << <<"a", "_", "1", " ", "c", " ", "b", "_", "1">> >>,
      << <<"a", " ", "b", " ", "c", ".">>, <<"b", " ", "d", " ", "e", ".">>,
         <<"b", " ", "f", " ", "g", ".">> >>,
      \* a key whose search has no combination, before a key whose search
      \* finds one
      << <<"a", " ", "a", " ", "a">>, <<"b", " ", "c">>, <<"b", " ", "d">>,
         <<"b", " ", "e">> >>,
      \* two lines of one string, one of them with an expression, and a key
      \* searched before the key they share
      << <<"a", " ", "b">>, <<"b", " ", "a", " ", "a">>, <<"b">>,
         <<"b", " ", "a", "_", "1", " ", "a", "_", "1">> >>,
      \* corpora with an invalid line: no letter, two spaces in a row, a
      \* character that is no letter, digit, space, underscore or punctuation
      << <<"a">>, <<"1", ".">> >>,
      << <<"a", " ", " ", "b">> >>,
      << <<"a", "!">>, <<"a">> >> }

\* the output order and the bury list of the runs: the default order with
\* nothing buried, or two orders with the key a buried
Configurations ==
    { [outputOrder |-> <<ALPHABETICAL>>, wordsToBury |-> <<>>],
      [outputOrder |-> <<FREQUENCY, LEAST_USED_AS_CLOZE_FIRST>>,
       wordsToBury |-> << <<"a">> >>] }

(***************************************************************************)
(* State                                                                   *)
(***************************************************************************)
VARIABLES
    sentenceLines,               \* the lines of the input file
    numFlashcardsPerWord,        \* n of main
    outputOrder,                 \* the list object passed as outputOrder
    wordsToBury,                 \* wordsToBury of main
    outputFile,                  \* the stored flashcard file
    existingClozeFlashcards,      \* the stored file as the last run read it
    uniqueWordIdToWordObjects,   \* the occurrences index of the last run
    inUseClozeFlashcards,        \* the in-use flashcards of the last run
    wordToSimpleClozeFlashcards, \* the result set of the last run
    searches,                    \* the searches of the last run
    outcome,                     \* how the last run ended
    runs,                        \* runs of main so far
    edits,                       \* edits of the configuration so far
    edited,                      \* something changed since the last run
    consecutive,                 \* the last run followed a completed run at once
    roundTrip,                   \* a flashcard on its way through the stored form
    call                         \* a call of one function of the models, and its return

vars == <<sentenceLines, numFlashcardsPerWord, outputOrder, wordsToBury, outputFile,
          existingClozeFlashcards, uniqueWordIdToWordObjects, inUseClozeFlashcards,
          wordToSimpleClozeFlashcards, searches, outcome, runs, edits, edited,
          consecutive, roundTrip, call>>

NoRoundTrip == [stage |-> "none", lineString |-> <<>>, wordIndex |-> 0]

\* no function is called on its own
NoCall == [stage |-> "none"]

\* nothing has run
NoRun ==
    /\ existingClozeFlashcards = NoFile
    /\ uniqueWordIdToWordObjects = <<>>
    /\ inUseClozeFlashcards = <<>>
    /\ wordToSimpleClozeFlashcards = <<>>
    /\ searches = <<>>
    /\ runs = 0
    /\ edits = 0
    /\ edited = FALSE
    /\ consecutive = FALSE

(***************************************************************************)
(* The generator, run again and again over a corpus and a stored file      *)
(***************************************************************************)
Init ==
    /\ sentenceLines \in Corpora
    /\ numFlashcardsPerWord \in 1..MaxTarget
    /\ \E configuration \in Configurations :
           /\ outputOrder = configuration.outputOrder
           /\ wordsToBury = configuration.wordsToBury
    /\ outputFile = NoFile
    /\ outcome = "none"
    /\ NoRun
    /\ roundTrip = NoRoundTrip
    /\ call = NoCall

\* what a call of main leaves behind
Ran(r) ==
    /\ outcome' = r.outcome
    /\ uniqueWordIdToWordObjects' = r.uniqueWordIdToWordObjects
    /\ inUseClozeFlashcards' = r.inUseClozeFlashcards
    /\ wordToSimpleClozeFlashcards' = r.wordToSimpleClozeFlashcards
    /\ searches' = r.searches
    /\ outputOrder' = r.outputOrder
    /\ outputFile' = r.file

\* one call of main
Main ==
    /\ runs < MaxRuns
    /\ Ran(RunMain(sentenceLines, numFlashcardsPerWord, outputOrder, wordsToBury,
                   outputFile))
    /\ existingClozeFlashcards' = outputFile
    /\ runs' = runs + 1
    /\ consecutive' = (outcome = "written" /\ ~edited)
    /\ edited' = FALSE
    /\ UNCHANGED <<sentenceLines, numFlashcardsPerWord, wordsToBury, edits, roundTrip, call>>

\* the stored flashcards flagged in use
NumInUse(file) == Len(InUseStoredCards(file))

\* the learner flags flashcard i of key k of the stored file as in use
MarkInUse(k, i) ==
    /\ outputFile.exists
    /\ runs < MaxRuns
    /\ NumInUse(outputFile) < MaxInUse
    /\ k \in 1..Len(outputFile.data)
    /\ i \in 1..Len(outputFile.data[k].cards)
    /\ outputFile.data[k].cards[i].inUse = "False"
    /\ outputFile' = [outputFile EXCEPT !.data[k].cards[i].inUse = "True"]
    /\ edited' = TRUE
    /\ UNCHANGED <<sentenceLines, numFlashcardsPerWord, outputOrder, wordsToBury,
                   existingClozeFlashcards, uniqueWordIdToWordObjects,
                   inUseClozeFlashcards, wordToSimpleClozeFlashcards, searches, outcome,
                   runs, edits, consecutive, roundTrip, call>>

\* the input file is replaced between two runs
SetSentenceLines(lines) ==
    /\ runs > 0
    /\ runs < MaxRuns
    /\ edits < MaxEdits
    /\ lines # sentenceLines
    /\ sentenceLines' = lines
    /\ edits' = edits + 1
    /\ edited' = TRUE
    /\ UNCHANGED <<numFlashcardsPerWord, outputOrder, wordsToBury, outputFile,
                   existingClozeFlashcards, uniqueWordIdToWordObjects,
                   inUseClozeFlashcards, wordToSimpleClozeFlashcards, searches, outcome,
                   runs, consecutive, roundTrip, call>>

\* the number of flashcards per word is changed between two runs
SetNumFlashcardsPerWord(n) ==
    /\ runs > 0
    /\ runs < MaxRuns
    /\ edits < MaxEdits
    /\ n # numFlashcardsPerWord
    /\ numFlashcardsPerWord' = n
    /\ edits' = edits + 1
    /\ edited' = TRUE
    /\ UNCHANGED <<sentenceLines, outputOrder, wordsToBury, outputFile,
                   existingClozeFlashcards, uniqueWordIdToWordObjects,
                   inUseClozeFlashcards, wordToSimpleClozeFlashcards, searches, outcome,
                   runs, consecutive, roundTrip, call>>

Next ==
    \/ Main
    \/ \E k \in 1..Len(outputFile.data) :
           \E i \in 1..Len(outputFile.data[k].cards) : MarkInUse(k, i)
    \/ \E lines \in Corpora : SetSentenceLines(lines)
    \/ \E n \in 1..MaxTarget : SetNumFlashcardsPerWord(n)

Spec == Init /\ [][Next]_vars

(***************************************************************************)
(* The round trip of one flashcard through its stored form                 *)
(***************************************************************************)
\* the chunks of the lines of the round trip
Chunks ==
    { <<"a">>, <<"b">>, <<"a", "_", "1">>, <<"b", "_", "1">>, <<"a", ".">>, <<",">> }

RECURSIVE LinesOfChunks(_)
LinesOfChunks(n) ==
    IF n = 1 THEN Chunks
    ELSE LET shorter == LinesOfChunks(n - 1)
         IN  shorter \cup { line \o <<" ">> \o chunk :
                              line \in {l \in shorter : Len(split(l)) = n - 1},
                              chunk \in Chunks }

\* the valid lines of up to MaxChunks chunks
RoundTripLines ==
    { line \in LinesOfChunks(MaxChunks) : findInvalidLines(<<line>>) = <<>> }

\* the blank positions of a line: its registered occurrences
BlankPositions(lineString) ==
    LET index == parseSentenceLine(lineString, <<>>, TRUE).uniqueWordIdToWordObjects
    IN  UNION { { index[k].words[j].index : j \in 1..Len(index[k].words) } :
                  k \in 1..Len(index) }

InitRoundTrip ==
    /\ \E lineString \in RoundTripLines :
           \E wordIndex \in BlankPositions(lineString) :
               roundTrip = [stage |-> "flashcard", lineString |-> lineString,
                            wordIndex |-> wordIndex]
    /\ sentenceLines = <<>>
    /\ numFlashcardsPerWord = 1
    /\ outputOrder = <<>>
    /\ wordsToBury = <<>>
    /\ outputFile = NoFile
    /\ outcome = "none"
    /\ NoRun
    /\ call = NoCall

\* GetSimpleClozeFlashcard and toJsonableDict on a flashcard of the corpus
Serialize ==
    /\ roundTrip.stage = "flashcard"
    /\ LET line == parseSentenceLine(roundTrip.lineString, <<>>, TRUE).line
           first == toJsonableDict(GetSimpleClozeFlashcard(
                        ClozeFlashcard(line, roundTrip.wordIndex, FALSE)))
       IN  roundTrip' = [stage |-> "serialized", lineString |-> roundTrip.lineString,
                         wordIndex |-> roundTrip.wordIndex, first |-> first]
    /\ UNCHANGED <<sentenceLines, numFlashcardsPerWord, outputOrder, wordsToBury,
                   outputFile, existingClozeFlashcards, uniqueWordIdToWordObjects,
                   inUseClozeFlashcards, wordToSimpleClozeFlashcards, searches, outcome,
                   runs, edits, edited, consecutive, call>>

\* createClozeFlashcardFromSimpleJsonableDict, then GetSimpleClozeFlashcard
\* and toJsonableDict again, or the IndexError of the second serialization
Reserialize ==
    /\ roundTrip.stage = "serialized"
    /\ LET instance == createClozeFlashcardFromSimpleJsonableDict(roundTrip.first)
       IN  IF GetSimpleClozeFlashcardRaises(instance)
           THEN roundTrip' = [stage |-> "IndexError",
                              lineString |-> roundTrip.lineString,
                              wordIndex |-> roundTrip.wordIndex,
                              first |-> roundTrip.first,
                              reconstructed |-> instance.line.id,
                              blankIndex |-> instance.wordIndex]
           ELSE roundTrip' = [stage |-> "reserialized",
                              lineString |-> roundTrip.lineString,
                              wordIndex |-> roundTrip.wordIndex,
                              first |-> roundTrip.first,
                              reconstructed |-> instance.line.id,
                              blankIndex |-> instance.wordIndex,
                              second |-> toJsonableDict(GetSimpleClozeFlashcard(instance))]
    /\ UNCHANGED <<sentenceLines, numFlashcardsPerWord, outputOrder, wordsToBury,
                   outputFile, existingClozeFlashcards, uniqueWordIdToWordObjects,
                   inUseClozeFlashcards, wordToSimpleClozeFlashcards, searches, outcome,
                   runs, edits, edited, consecutive, call>>

NextRoundTrip == Serialize \/ Reserialize

SpecRoundTrip == InitRoundTrip /\ [][NextRoundTrip]_vars

(***************************************************************************)
(* The persistence check on any in-use index and any result set            *)
(***************************************************************************)
\* the lines the checked flashcards blank the first word of
CheckedLines == { <<"a">>, <<"a", ".">>, <<"b">>, <<"a", " ", "b">> }

CheckedCard(lineString, inUse) ==
    ClozeFlashcard(parseSentenceLine(lineString, <<>>, FALSE).line, 0, inUse)

RECURSIVE SeqsUpTo(_, _)
SeqsUpTo(S, n) ==
    IF n = 0 THEN { <<>> }
    ELSE LET shorter == SeqsUpTo(S, n - 1)
         IN  shorter \cup { Append(q, x) : q \in {p \in shorter : Len(p) = n - 1}, x \in S }

\* the in-use index of a list of lines, grouped as makeInUseClozeFlashcards
\* groups the flashcards it reconstructs
RECURSIVE InUseIndexOf(_, _)
InUseIndexOf(lineStrings, inUse) ==
    IF lineStrings = <<>> THEN inUse
    ELSE LET card == CheckedCard(Head(lineStrings), TRUE)
         IN  InUseIndexOf(Tail(lineStrings),
                 AppendCard(inUse, getUniqueWordId(card.line, card.wordIndex), card))

\* a result set holding a flashcard for each of a list of lines
RECURSIVE ResultSetOf(_, _)
ResultSetOf(lineStrings, result) ==
    IF lineStrings = <<>> THEN result
    ELSE LET card == CheckedCard(Head(lineStrings), FALSE)
         IN  ResultSetOf(Tail(lineStrings),
                 AppendCard(result, getUniqueWordId(card.line, card.wordIndex),
                            GetSimpleClozeFlashcard(card)))

InitPersist ==
    /\ \E lineStrings \in SeqsUpTo(CheckedLines, MaxChecked) :
           inUseClozeFlashcards = InUseIndexOf(lineStrings, <<>>)
    /\ \E lineStrings \in SeqsUpTo(CheckedLines, MaxChecked) :
           wordToSimpleClozeFlashcards = ResultSetOf(lineStrings, <<>>)
    /\ sentenceLines = <<>>
    /\ numFlashcardsPerWord = 1
    /\ outputOrder = <<ALPHABETICAL>>
    /\ wordsToBury = <<>>
    /\ outputFile = NoFile
    /\ outcome = "generated"
    /\ existingClozeFlashcards = NoFile
    /\ uniqueWordIdToWordObjects = <<>>
    /\ searches = <<>>
    /\ runs = 0
    /\ edits = 0
    /\ edited = FALSE
    /\ consecutive = FALSE
    /\ roundTrip = NoRoundTrip
    /\ call = NoCall

\* main from its call of ensureInUseClozeFlashcardsPersist on
Persist ==
    /\ outcome = "generated"
    /\ LET r == FinishRun(inUseClozeFlashcards, wordToSimpleClozeFlashcards,
                          uniqueWordIdToWordObjects, outputOrder, wordsToBury, outputFile)
       IN  /\ outcome' = r.outcome
           /\ outputOrder' = r.outputOrder
           /\ wordToSimpleClozeFlashcards' = r.wordToSimpleClozeFlashcards
           /\ outputFile' = r.file
    /\ UNCHANGED <<sentenceLines, numFlashcardsPerWord, wordsToBury,
                   existingClozeFlashcards, uniqueWordIdToWordObjects,
                   inUseClozeFlashcards, searches, runs, edits, edited, consecutive,
                   roundTrip, call>>

NextPersist == Persist

SpecPersist == InitPersist /\ [][NextPersist]_vars

(***************************************************************************)
(* The cosine dissimilarity of any two lines over any occurrences index    *)
(***************************************************************************)
\* the lines scored: lines of the corpora and lines no corpus holds, as the
\* line reconstructed from a stored flashcard can be
ScoredLines ==
    { <<"a">>, <<"a", " ", "b">>, <<"b", " ", "c">>, <<"d">>,
      <<"a", "_", "1", " ", "b", "_", "1">> }

InitDissimilarity ==
    /\ \E lines \in Corpora :
           uniqueWordIdToWordObjects = ParseSentenceLines(lines, <<>>)
    /\ \E line1, line2 \in ScoredLines :
           call = [stage |-> "getCosDissimilarity", line1 |-> line1, line2 |-> line2,
                   calculatedCosDissimilarities |-> << >>, calls |-> 0]
    /\ sentenceLines = <<>>
    /\ numFlashcardsPerWord = 1
    /\ outputOrder = <<>>
    /\ wordsToBury = <<>>
    /\ outputFile = NoFile
    /\ outcome = "none"
    /\ existingClozeFlashcards = NoFile
    /\ inUseClozeFlashcards = <<>>
    /\ wordToSimpleClozeFlashcards = <<>>
    /\ searches = <<>>
    /\ runs = 0
    /\ edits = 0
    /\ edited = FALSE
    /\ consecutive = FALSE
    /\ roundTrip = NoRoundTrip

\* line1.getCosDissimilarity(line2, ...) or line2.getCosDissimilarity(line1, ...)
\* with the memo the calls before it left
GetCosDissimilarity(swapped) ==
    /\ call.stage = "getCosDissimilarity"
    /\ call.calls < MaxCalls
    /\ LET line1 == parseSentenceLine(call.line1, uniqueWordIdToWordObjects, FALSE).line
           line2 == parseSentenceLine(call.line2, uniqueWordIdToWordObjects, FALSE).line
           r == IF swapped
                THEN getCosDissimilarity(line2, line1, call.calculatedCosDissimilarities,
                                         uniqueWordIdToWordObjects)
                ELSE getCosDissimilarity(line1, line2, call.calculatedCosDissimilarities,
                                         uniqueWordIdToWordObjects)
       IN  call' = [stage |-> "getCosDissimilarity",
                    line1 |-> call.line1, line2 |-> call.line2,
                    calculatedCosDissimilarities |-> r.calculatedCosDissimilarities,
                    calls |-> call.calls + 1, value |-> r.value]
    /\ UNCHANGED <<sentenceLines, numFlashcardsPerWord, outputOrder, wordsToBury,
                   outputFile, existingClozeFlashcards, uniqueWordIdToWordObjects,
                   inUseClozeFlashcards, wordToSimpleClozeFlashcards, searches, outcome,
                   runs, edits, edited, consecutive, roundTrip>>

NextDissimilarity == \E swapped \in BOOLEAN : GetCosDissimilarity(swapped)

SpecDissimilarity == InitDissimilarity /\ [][NextDissimilarity]_vars

(***************************************************************************)
(* The comparison of two ClozeFlashcard objects                            *)
(***************************************************************************)
\* a ClozeFlashcard object with its attribute simpleClozeFlashcard: None, the
\* empty sequence, until GetSimpleClozeFlashcard has stored the simple form
ClozeFlashcardObject(lineString, wordIndex, inUse) ==
    [lineString |-> lineString, wordIndex |-> wordIndex, inUse |-> inUse,
     simpleClozeFlashcard |-> <<>>]

\* the simple form GetSimpleClozeFlashcard computes for an object
SimpleFormOf(object) ==
    GetSimpleClozeFlashcard(
        ClozeFlashcard(parseSentenceLine(object.lineString, <<>>, FALSE).line,
                       object.wordIndex, object.inUse))

\* GetSimpleClozeFlashcard on an object: the stored simple form is returned
\* when there is one, otherwise it is computed and stored
Memoized(object) ==
    IF object.simpleClozeFlashcard # <<>> THEN object
    ELSE [object EXCEPT !.simpleClozeFlashcard = <<SimpleFormOf(object)>>]

\* ClozeFlashcard.__eq__ on two distinct objects: the attributes are compared
\* as they are. None == None is True; a simple form against None is
\* NotImplemented both ways round, and Python falls back on identity.
ClozeFlashcardEq(self, other) ==
    IF self.simpleClozeFlashcard = <<>> /\ other.simpleClozeFlashcard = <<>>
    THEN TRUE
    ELSE IF self.simpleClozeFlashcard = <<>> \/ other.simpleClozeFlashcard = <<>>
    THEN FALSE
    ELSE SimpleEq(self.simpleClozeFlashcard[1], other.simpleClozeFlashcard[1])

\* the lines of the flashcards compared
ComparedLines == { <<"a">>, <<"b">>, <<"a", " ", "b">>, <<"a", ".">> }

\* the flashcards compared: a blank at an occurrence of a line, in use or not
ComparedObjects ==
    UNION { { ClozeFlashcardObject(lineString, wordIndex, inUse) :
                wordIndex \in BlankPositions(lineString), inUse \in BOOLEAN } :
            lineString \in ComparedLines }

InitEquality ==
    /\ \E self, other \in ComparedObjects :
           call = [stage |-> "__eq__", self |-> self, other |-> other]
    /\ sentenceLines = <<>>
    /\ numFlashcardsPerWord = 1
    /\ outputOrder = <<>>
    /\ wordsToBury = <<>>
    /\ outputFile = NoFile
    /\ outcome = "none"
    /\ NoRun
    /\ roundTrip = NoRoundTrip

\* GetSimpleClozeFlashcard is called on one of the two flashcards
GetSimpleOfSelf ==
    /\ call.stage = "__eq__"
    /\ call.self.simpleClozeFlashcard = <<>>
    /\ call' = [call EXCEPT !.self = Memoized(call.self)]
    /\ UNCHANGED <<sentenceLines, numFlashcardsPerWord, outputOrder, wordsToBury,
                   outputFile, existingClozeFlashcards, uniqueWordIdToWordObjects,
                   inUseClozeFlashcards, wordToSimpleClozeFlashcards, searches, outcome,
                   runs, edits, edited, consecutive, roundTrip>>

GetSimpleOfOther ==
    /\ call.stage = "__eq__"
    /\ call.other.simpleClozeFlashcard = <<>>
    /\ call' = [call EXCEPT !.other = Memoized(call.other)]
    /\ UNCHANGED <<sentenceLines, numFlashcardsPerWord, outputOrder, wordsToBury,
                   outputFile, existingClozeFlashcards, uniqueWordIdToWordObjects,
                   inUseClozeFlashcards, wordToSimpleClozeFlashcards, searches, outcome,
                   runs, edits, edited, consecutive, roundTrip>>

\* self == other
Compare ==
    /\ call.stage = "__eq__"
    /\ call' = [stage |-> "compared", self |-> call.self, other |-> call.other,
                equal |-> ClozeFlashcardEq(call.self, call.other)]
    /\ UNCHANGED <<sentenceLines, numFlashcardsPerWord, outputOrder, wordsToBury,
                   outputFile, existingClozeFlashcards, uniqueWordIdToWordObjects,
                   inUseClozeFlashcards, wordToSimpleClozeFlashcards, searches, outcome,
                   runs, edits, edited, consecutive, roundTrip>>

NextEquality == GetSimpleOfSelf \/ GetSimpleOfOther \/ Compare

SpecEquality == InitEquality /\ [][NextEquality]_vars

(***************************************************************************)
(* The parse of any line over any occurrences index                        *)
(***************************************************************************)
\* the chunks of the lines parsed: words, tagged words, wrapped words, marks
\* standing alone
ParsedChunks ==
    { <<"a">>, <<"b">>, <<"a", "_", "1">>, <<"b", "_", "1">>, <<"c", "_", "2">>,
      <<"a", ".">>, <<"\"", "b", "?">>, <<",">> }

\* the lists of up to MaxChunks chunks
ChunkLists == UNION { [1..n -> ParsedChunks] : n \in 1..MaxChunks }

\* the occurrences index before the call: empty, or that of a small corpus
IndexedCorpora ==
    { <<>>, << <<"a">>, <<"b", "_", "1", " ", "a", "_", "1">>, <<"a", " ", "b">> >> }

InitParse ==
    /\ \E lines \in IndexedCorpora :
           uniqueWordIdToWordObjects = ParseSentenceLines(lines, <<>>)
    /\ \E chunks \in ChunkLists : \E addWordsToClassDict \in BOOLEAN :
           call = [stage |-> "parseSentenceLine", chunks |-> chunks,
                   lineString |-> join(<<" ">>, chunks),
                   addWordsToClassDict |-> addWordsToClassDict]
    /\ sentenceLines = <<>>
    /\ numFlashcardsPerWord = 1
    /\ outputOrder = <<>>
    /\ wordsToBury = <<>>
    /\ outputFile = NoFile
    /\ outcome = "none"
    /\ existingClozeFlashcards = NoFile
    /\ inUseClozeFlashcards = <<>>
    /\ wordToSimpleClozeFlashcards = <<>>
    /\ searches = <<>>
    /\ runs = 0
    /\ edits = 0
    /\ edited = FALSE
    /\ consecutive = FALSE
    /\ roundTrip = NoRoundTrip

\* parseSentenceLine(line, uniqueWordIdToWordObjects, addWordsToClassDict):
\* the Line it returns, the index each of its words was given, and the
\* occurrences index it leaves (before is the index at the call)
ParseSentenceLine ==
    /\ call.stage = "parseSentenceLine"
    /\ LET r == parseSentenceLine(call.lineString, uniqueWordIdToWordObjects,
                                  call.addWordsToClassDict)
       IN  /\ call' = [stage |-> "parsed", chunks |-> call.chunks,
                       lineString |-> call.lineString,
                       addWordsToClassDict |-> call.addWordsToClassDict,
                       line |-> r.line,
                       indices |-> appendReferenceLine(r.line.words),
                       before |-> uniqueWordIdToWordObjects]
           /\ uniqueWordIdToWordObjects' = r.uniqueWordIdToWordObjects
    /\ UNCHANGED <<sentenceLines, numFlashcardsPerWord, outputOrder, wordsToBury,
                   outputFile, existingClozeFlashcards,
                   inUseClozeFlashcards, wordToSimpleClozeFlashcards, searches, outcome,
                   runs, edits, edited, consecutive, roundTrip>>

NextParse == ParseSentenceLine

SpecParse == InitParse /\ [][NextParse]_vars

(***************************************************************************)
(* The five ranges of a flashcard of any line                              *)
(***************************************************************************)
\* the chunks of the lines carved: the members of an expression, a member
\* of another, a word, a mark standing alone
CarvedChunks == { <<"a", "_", "1">>, <<"c", "_", "2">>, <<"b">>, <<",">> }

CarvedChunkLists == UNION { [1..n -> CarvedChunks] : n \in 1..MaxCarved }

\* the indices of the words of a line that parseSentenceLine registers
RegisteredIndices(lineString) ==
    LET index == parseSentenceLine(lineString, <<>>, TRUE).uniqueWordIdToWordObjects
    IN  UNION { { index[k].words[j].index : j \in 1..Len(index[k].words) } :
                  k \in 1..Len(index) }

InitCarve ==
    /\ \E chunks \in CarvedChunkLists :
           \E wordIndex \in RegisteredIndices(join(<<" ">>, chunks)) :
               call = [stage |-> "GetSimpleClozeFlashcard", chunks |-> chunks,
                       lineString |-> join(<<" ">>, chunks), wordIndex |-> wordIndex]
    /\ sentenceLines = <<>>
    /\ numFlashcardsPerWord = 1
    /\ outputOrder = <<>>
    /\ wordsToBury = <<>>
    /\ outputFile = NoFile
    /\ outcome = "none"
    /\ NoRun
    /\ roundTrip = NoRoundTrip

\* ClozeFlashcard(line, wordIndex).GetSimpleClozeFlashcard() on a word that
\* the parse of the line registered: the ends of its five ranges and the
\* flashcard it returns
Carve ==
    /\ call.stage = "GetSimpleClozeFlashcard"
    /\ LET line == parseSentenceLine(call.lineString, <<>>, TRUE).line
       IN  call' = [stage |-> "carved", chunks |-> call.chunks,
                    lineString |-> call.lineString, wordIndex |-> call.wordIndex,
                    ends |-> ClozeRanges(line, call.wordIndex),
                    simpleClozeFlashcard |->
                        GetSimpleClozeFlashcard(
                            ClozeFlashcard(line, call.wordIndex, FALSE))]
    /\ UNCHANGED <<sentenceLines, numFlashcardsPerWord, outputOrder, wordsToBury,
                   outputFile, existingClozeFlashcards, uniqueWordIdToWordObjects,
                   inUseClozeFlashcards, wordToSimpleClozeFlashcards, searches, outcome,
                   runs, edits, edited, consecutive, roundTrip>>

NextCarve == Carve

SpecCarve == InitCarve /\ [][NextCarve]_vars

(***************************************************************************)
(* The three selection algorithms on one index and one set of in-use       *)
(* flashcards                                                              *)
(***************************************************************************)
\* the corpora main lets through
ValidCorpora == { corpus \in Corpora : findInvalidLines(corpus) = <<>> }

\* the places of the flashcards of a stored file
Positions(data) ==
    UNION { { <<k, i>> : i \in 1..Len(data[k].cards) } : k \in 1..Len(data) }

\* a stored file with the flashcards at the places of marked flagged in use
Flagged(data, marked) ==
    [k \in 1..Len(data) |->
        [key |-> data[k].key,
         cards |-> [i \in 1..Len(data[k].cards) |->
                       IF <<k, i>> \in marked
                       THEN [data[k].cards[i] EXCEPT !.inUse = "True"]
                       ELSE data[k].cards[i]]]]

\* the files a learner makes of the output of a run: the output with up to
\* MaxInUse flashcards flagged in use, none when the run wrote nothing
FlaggedFilesOf(run) ==
    IF run.outcome # "written" THEN {}
    ELSE { JsonFile(Flagged(run.file.data, marked)) :
             marked \in { m \in SUBSET Positions(run.file.data) :
                            Cardinality(m) <= MaxInUse } }

\* the runs of main on a corpus, a first run beside no stored file and each
\* later one beside no stored file or a file made of an earlier run
RECURSIVE RunsOn(_, _)
RunsOn(corpus, rounds) ==
    { RunMain(corpus, target, <<ALPHABETICAL>>, <<>>, file) :
        target \in 1..MaxTarget,
        file \in {NoFile} \cup
                 (IF rounds = 1 THEN {}
                  ELSE UNION { FlaggedFilesOf(run) : run \in RunsOn(corpus, rounds - 1) }) }

\* the ids of the lines of an occurrences index
LineIdsOf(index) ==
    UNION { { index[k].words[i].line.id : i \in 1..Len(index[k].words) } :
            k \in 1..Len(index) }

\* the runs of main on the corpora it lets through, up to the second
SecondRuns == UNION { RunsOn(corpus, 2) : corpus \in ValidCorpora }

\* the occurrences index and the in-use flashcards as main has them when it
\* calls the selection algorithm, in the second of two runs on a corpus
InitAlgorithms ==
    /\ \E run \in SecondRuns, target \in 1..MaxTarget :
               /\ run.outcome # "IndexError"
               /\ call = [stage |-> "loaded",
                          uniqueWordIdToWordObjects |-> run.uniqueWordIdToWordObjects,
                          inUseClozeFlashcards |-> run.inUseClozeFlashcards,
                          numFlashcardsPerWord |-> target]
    /\ sentenceLines = <<>>
    /\ numFlashcardsPerWord = 1
    /\ outputOrder = <<>>
    /\ wordsToBury = <<>>
    /\ outputFile = NoFile
    /\ outcome = "none"
    /\ NoRun
    /\ roundTrip = NoRoundTrip

\* what a selection algorithm leaves: its name and its result beside its
\* inputs
Selected(algorithm, result) ==
    /\ call' = [stage |-> algorithm,
                uniqueWordIdToWordObjects |-> call.uniqueWordIdToWordObjects,
                inUseClozeFlashcards |-> call.inUseClozeFlashcards,
                numFlashcardsPerWord |-> call.numFlashcardsPerWord,
                wordToSimpleClozeFlashcards |-> result]
    /\ UNCHANGED <<sentenceLines, numFlashcardsPerWord, outputOrder, wordsToBury,
                   outputFile, existingClozeFlashcards, uniqueWordIdToWordObjects,
                   inUseClozeFlashcards, wordToSimpleClozeFlashcards, searches, outcome,
                   runs, edits, edited, consecutive, roundTrip>>

MostDifferent ==
    /\ call.stage = "loaded"
    /\ Selected("mostDifferentAlgorithm",
           mostDifferentAlgorithm(call.uniqueWordIdToWordObjects,
               call.inUseClozeFlashcards,
               call.numFlashcardsPerWord).wordToSimpleClozeFlashcards)

FirstSentencesFirst ==
    /\ call.stage = "loaded"
    /\ Selected("firstSentencesFirstAlgorithm",
           firstSentencesFirstAlgorithm(call.uniqueWordIdToWordObjects,
               call.inUseClozeFlashcards, call.numFlashcardsPerWord))

\* Word.getSentenceNewWordProportion is a function of the line and of the
\* words seen in the in-use flashcards; every such function is tried
HighestProportionOfNewWords(sentenceProportions) ==
    /\ call.stage = "loaded"
    /\ Selected("highestProportionOfNewWordsAlgorithm",
           highestProportionOfNewWordsAlgorithm(call.uniqueWordIdToWordObjects,
               call.inUseClozeFlashcards, call.numFlashcardsPerWord,
               sentenceProportions))

\* the lists outputOrder of the orders that main sorts by without drawing at
\* random
OrderLists == SeqsUpTo({ALPHABETICAL, FREQUENCY, LEAST_USED_AS_CLOZE_FIRST}, MaxOrders)

\* the loop of main over outputOrder, on the result set a selection
\* algorithm returned: the list as main was given it, the result set before
\* and after, and whether the loop raised
OrderKeys(orders) ==
    /\ call.stage \in {"mostDifferentAlgorithm", "firstSentencesFirstAlgorithm",
                       "highestProportionOfNewWordsAlgorithm"}
    /\ call' = [stage |-> "ordered",
                uniqueWordIdToWordObjects |-> call.uniqueWordIdToWordObjects,
                inUseClozeFlashcards |-> call.inUseClozeFlashcards,
                numFlashcardsPerWord |-> call.numFlashcardsPerWord,
                wordToSimpleClozeFlashcards |-> call.wordToSimpleClozeFlashcards,
                outputOrder |-> orders,
                ordered |-> ApplyOrders(Reverse(orders),
                                call.wordToSimpleClozeFlashcards,
                                call.uniqueWordIdToWordObjects)]
    /\ UNCHANGED <<sentenceLines, numFlashcardsPerWord, outputOrder, wordsToBury,
                   outputFile, existingClozeFlashcards, uniqueWordIdToWordObjects,
                   inUseClozeFlashcards, wordToSimpleClozeFlashcards, searches, outcome,
                   runs, edits, edited, consecutive, roundTrip>>

\* the two algorithms that take the flashcards of a key in the order of a
\* list
NextAlgorithms ==
    \/ FirstSentencesFirst
    \/ \E sentenceProportions \in
             [LineIdsOf(call.uniqueWordIdToWordObjects) -> 0..MaxProportion] :
           HighestProportionOfNewWords(sentenceProportions)

SpecAlgorithms == InitAlgorithms /\ [][NextAlgorithms]_vars

\* the search for the most different flashcards, and the loop over
\* outputOrder on its result set
NextOrder ==
    \/ MostDifferent
    \/ \E orders \in OrderLists : OrderKeys(orders)

SpecOrder == InitAlgorithms /\ [][NextOrder]_vars

(***************************************************************************)
(* The stored configurations (configUtils.py)                              *)
(***************************************************************************)
\* names and file names: "default", f"new_config_{newConfigNumber}" and
\* f"{configName}.json"; a key that is absent or None has the empty value
DefaultName == <<"default", 0>>
NoName == <<"", 0>>
NewConfigName(newConfigNumber) == <<"new_config_", newConfigNumber>>
JsonFileName(configName) == <<configName[1], configName[2], ".json">>
NoFileName == <<"", 0, "">>

\* os.path.join("generatorConfigs", configFileName), and a bare file name
InGeneratorConfigs(configFileName) == [dir |-> "generatorConfigs", file |-> configFileName]
Bare(fileName) == [dir |-> "", file |-> fileName]

\* what readJsonFile finds at a path: no file, a text json.loads raises
\* JSONDecodeError on, or a JSON object (a list of key and value)
MissingFile == [state |-> "missing", json |-> <<>>]
UnparsableFile == [state |-> "unparsable", json |-> <<>>]
JsonObject(json) == [state |-> "json", json |-> json]
\* the value None of a function that returns a JSON object or None
None == [state |-> "None", json |-> <<>>]

\* currentConfigIndex: an int, or a value that is no int (absent, null, text)
IntIndex(value) == [isInt |-> TRUE, value |-> value]
NotInt == [isInt |-> FALSE, value |-> 0]

DefaultConfigObject == [name |-> DefaultName, file |-> JsonFileName(DefaultName)]

\* the content resetAppConfigJson writes to appConfig.json
InitialAppConfigJson ==
    [exists |-> TRUE, configs |-> <<DefaultConfigObject>>, currentConfigIndex |-> IntIndex(0)]

\* writeAppConfigJsonFile
writeAppConfigJsonFile(disk, appConfigJson) ==
    [disk EXCEPT !.appConfig = [appConfigJson EXCEPT !.exists = TRUE]]

\* writeJsonFile on a config file
writeConfigFile(disk, filePath, json) ==
    [disk EXCEPT !.files = [path \in DOMAIN disk.files |->
                               IF path = filePath THEN JsonObject(json)
                               ELSE disk.files[path]]]

\* what a function of configUtils leaves: the files, the exception it raised
\* ("none" when it returned) and the value it returned
Returned(disk, value) == [disk |-> disk, raises |-> "none", value |-> value]
Raised(disk, exception) == [disk |-> disk, raises |-> exception, value |-> None]

\* resetAppConfigJson
resetAppConfigJson(disk) == writeAppConfigJsonFile(disk, InitialAppConfigJson)

\* getAppConfigJson
getAppConfigJson(disk) ==
    IF ~disk.appConfig.exists
    THEN Returned(resetAppConfigJson(disk), InitialAppConfigJson)
    ELSE Returned(disk, disk.appConfig)

\* resetConfigsList
resetConfigsList(disk) ==
    LET Reset(appConfigJson) ==
            writeAppConfigJsonFile(appConfigJson.disk,
                [appConfigJson.value EXCEPT !.configs = <<DefaultConfigObject>>])
    IN  Reset(getAppConfigJson(disk))

\* resetCurrentConfigIndex
resetCurrentConfigIndex(disk) ==
    LET Reset(appConfigJson) ==
            writeAppConfigJsonFile(appConfigJson.disk,
                [appConfigJson.value EXCEPT !.currentConfigIndex = IntIndex(0)])
    IN  Reset(getAppConfigJson(disk))

\* getConfigs
getConfigs(disk) ==
    LET Configs(appConfigJson) == Returned(appConfigJson.disk, appConfigJson.value.configs)
        Checked(appConfigJson) ==
            IF appConfigJson.value.configs = <<>>
            THEN Configs(getAppConfigJson(resetConfigsList(appConfigJson.disk)))
            ELSE Configs(appConfigJson)
    IN  Checked(getAppConfigJson(disk))

\* getCurrentConfigIndex
getCurrentConfigIndex(disk) ==
    LET Index(appConfigJson) ==
            Returned(appConfigJson.disk, appConfigJson.value.currentConfigIndex.value)
        Checked(appConfigJson) ==
            IF ~appConfigJson.value.currentConfigIndex.isInt
            THEN Index(getAppConfigJson(resetCurrentConfigIndex(appConfigJson.disk)))
            ELSE Index(appConfigJson)
    IN  Checked(getAppConfigJson(disk))

\* configs[currentConfigIndex] of a Python list: the place of the element, 0
\* when the subscript raises IndexError
Subscript(length, index) ==
    IF 0 <= index /\ index < length THEN index + 1
    ELSE IF index < 0 /\ 0 - index <= length THEN length + index + 1
    ELSE 0

\* getCurrentConfigName
getCurrentConfigName(disk) ==
    LET Named(checked, configs, place) ==
            IF place = 0 THEN Raised(checked, "IndexError")
            ELSE IF configs[place].name # NoName
            THEN Returned(checked, configs[place].name)
            ELSE Returned(resetAppConfigJson(checked), DefaultName)
        Checked(configs, currentConfigIndex) ==
            Named(IF 0 > currentConfigIndex \/ currentConfigIndex >= Len(configs.value)
                  THEN resetCurrentConfigIndex(configs.disk)
                  ELSE configs.disk,
                  configs.value,
                  Subscript(Len(configs.value), currentConfigIndex))
        Indexed(currentConfigIndex) ==
            Checked(getConfigs(currentConfigIndex.disk), currentConfigIndex.value)
    IN  Indexed(getCurrentConfigIndex(disk))

\* validateConfigObject
validateConfigObject(config) == config.name # NoName /\ config.file # NoFileName

\* getConfigList
getConfigList(disk) ==
    LET Names(valid) == [k \in 1..Len(valid) |-> valid[k].name]
        Listed(appConfigJson) ==
            Returned(appConfigJson.disk,
                     Names(SelectSeq(appConfigJson.value.configs, validateConfigObject)))
    IN  Listed(getAppConfigJson(disk))

\* getConfigFilePath: the file of the first config of the name that has a
\* file, else f"{configName}.json"
getConfigFilePath(disk, configName) ==
    LET Path(found) ==
            IF found # <<>> THEN InGeneratorConfigs(found[1].file)
            ELSE InGeneratorConfigs(JsonFileName(configName))
        Found(configs) ==
            Returned(configs.disk,
                     Path(SelectSeq(configs.value,
                              LAMBDA config : /\ config.name = configName
                                              /\ config.file # NoFileName)))
    IN  Found(getConfigs(disk))

\* getConfigJson and resetConfigFile, each calling the other; depth is the
\* number of their frames on the stack, and a call beyond the recursion limit
\* raises RecursionError, which nothing catches
RECURSIVE getConfigJson(_, _, _)
RECURSIVE resetConfigFile(_, _, _)
getConfigJson(disk, configFilePath, depth) ==
    LET AfterReset(reset) ==
            IF reset.raises # "none" THEN reset
            ELSE Returned(reset.disk, JsonObject(<<>>))
    IN  IF depth > MaxDepth THEN Raised(disk, "RecursionError")
        ELSE IF disk.files[configFilePath].state = "missing"
        THEN AfterReset(resetConfigFile(disk, configFilePath, depth + 1))
        ELSE IF disk.files[configFilePath].state = "json"
        THEN Returned(disk, disk.files[configFilePath])
        ELSE Returned(disk, None)

resetConfigFile(disk, filePath, depth) ==
    LET AfterReset(reset) ==
            IF reset.raises # "none" THEN reset
            ELSE Returned(writeConfigFile(reset.disk, filePath, <<>>), None)
        Written(defaultConfig) ==
            IF defaultConfig.raises # "none" THEN defaultConfig
            ELSE IF defaultConfig.value = None
            THEN AfterReset(resetConfigFile(defaultConfig.disk,
                                Bare(JsonFileName(DefaultName)), depth + 1))
            ELSE Returned(writeConfigFile(defaultConfig.disk, filePath,
                                          defaultConfig.value.json), None)
        Read(defaultPath) ==
            Written(getConfigJson(defaultPath.disk, defaultPath.value, depth + 1))
    IN  IF depth > MaxDepth THEN Raised(disk, "RecursionError")
        ELSE Read(getConfigFilePath(disk, DefaultName))

\* createNewConfigName
createNewConfigName(disk) ==
    LET Fresh(names) ==
            CHOOSE newConfigNumber \in 1..(Len(names) + 1) :
                /\ ~InSeq(NewConfigName(newConfigNumber), names)
                /\ \A m \in 1..(newConfigNumber - 1) : InSeq(NewConfigName(m), names)
        Named(existingConfigNames) ==
            Returned(existingConfigNames.disk,
                     NewConfigName(Fresh(existingConfigNames.value)))
    IN  Named(getConfigList(disk))

\* createConfigMapping
createConfigMapping(disk, configName, configFilePath) ==
    LET Mapped(appConfigJson) ==
            IF \E k \in 1..Len(appConfigJson.value.configs) :
                   appConfigJson.value.configs[k].name = configName
            THEN appConfigJson.disk
            ELSE writeAppConfigJsonFile(appConfigJson.disk,
                     [appConfigJson.value EXCEPT
                         !.configs = Append(@, [name |-> configName,
                                                file |-> configFilePath])])
    IN  Mapped(getAppConfigJson(disk))

\* setCurrentConfig
setCurrentConfig(disk, name) ==
    LET First(places) == CHOOSE k \in places : \A j \in places : k <= j
        Set(appConfigJson, places) ==
            IF places = {} THEN appConfigJson.disk
            ELSE writeAppConfigJsonFile(appConfigJson.disk,
                     [appConfigJson.value EXCEPT
                         !.currentConfigIndex = IntIndex(First(places) - 1)])
        Sought(appConfigJson) ==
            Set(appConfigJson,
                { k \in 1..Len(appConfigJson.value.configs) :
                      appConfigJson.value.configs[k].name = name })
    IN  Sought(getAppConfigJson(disk))

\* createAndUseNewConfig
createAndUseNewConfig(disk) ==
    LET Used(reset, newConfigName) ==
            IF reset.raises # "none" THEN reset
            ELSE Returned(setCurrentConfig(
                              createConfigMapping(reset.disk, newConfigName,
                                                  JsonFileName(newConfigName)),
                              newConfigName),
                          newConfigName)
        Reset(newConfigFilePath, newConfigName) ==
            Used(resetConfigFile(newConfigFilePath.disk, newConfigFilePath.value, 1),
                 newConfigName)
        Created(newConfigName) ==
            Reset(getConfigFilePath(newConfigName.disk, newConfigName.value),
                  newConfigName.value)
    IN  Created(createNewConfigName(disk))

\* dict.update on a JSON object with one key
Update(json, key, value) ==
    IF \E k \in 1..Len(json) : json[k].key = key
    THEN [k \in 1..Len(json) |->
             IF json[k].key = key THEN [key |-> key, value |-> value] ELSE json[k]]
    ELSE Append(json, [key |-> key, value |-> value])

\* updateConfigFile with an update of one key
updateConfigFile(disk, configName, key, value) ==
    LET Updated(configJson, configFilePath) ==
            IF configJson.raises # "none" THEN configJson
            ELSE IF configJson.value = None
            THEN Raised(configJson.disk, "AttributeError")
            ELSE Returned(writeConfigFile(configJson.disk, configFilePath,
                              Update(configJson.value.json, key, value)),
                          None)
        Read(configFilePath) ==
            Updated(getConfigJson(configFilePath.disk, configFilePath.value, 1),
                    configFilePath.value)
        Created(created) ==
            IF created.raises # "none" THEN created
            ELSE Read(getConfigFilePath(created.disk, created.value))
    IN  IF configName = DefaultName THEN Created(createAndUseNewConfig(disk))
        ELSE Created(Returned(disk, configName))

\* setConfigFlashcardsPerWord
setConfigFlashcardsPerWord(disk, configName, count) ==
    LET Created(created) ==
            IF created.raises # "none" THEN created
            ELSE updateConfigFile(created.disk, created.value,
                                  "numFlashcardsPerWord", count)
    IN  IF configName = DefaultName THEN Created(createAndUseNewConfig(disk))
        ELSE Created(Returned(disk, configName))

(***************************************************************************)
(* Commands on the stored configurations                                   *)
(***************************************************************************)
\* the config objects a stored appConfig.json holds: the default one, a
\* created one, one without a file and one without a name
StoredConfigObjects ==
    { DefaultConfigObject }
    \cup { [name |-> NewConfigName(n), file |-> JsonFileName(NewConfigName(n))] :
             n \in 1..MaxConfigNumber }
    \cup { [name |-> NewConfigName(n), file |-> NoFileName] : n \in 1..MaxConfigNumber }
    \cup { [name |-> NoName, file |-> JsonFileName(DefaultName)] }

\* the stored appConfig.json: no file, or a list of config objects and an
\* index that is no int, or an int inside or outside the list
StoredAppConfigs ==
    { [exists |-> FALSE, configs |-> <<>>, currentConfigIndex |-> NotInt] }
    \cup { [exists |-> TRUE, configs |-> configs, currentConfigIndex |-> index] :
             configs \in SeqsUpTo(StoredConfigObjects, MaxConfigs),
             index \in { NotInt } \cup { IntIndex(k) : k \in (0 - 1)..MaxConfigs } }

\* the names a command can meet and the paths it can touch
ConfigNames ==
    { DefaultName } \cup { NewConfigName(n) : n \in 1..(MaxConfigNumber + MaxCommands) }
ConfigPaths ==
    { InGeneratorConfigs(JsonFileName(name)) : name \in ConfigNames }
    \cup { Bare(JsonFileName(DefaultName)) }

\* no path is given to the command
NoPath == Bare(NoFileName)

\* a stored JSON object
PerWord(count) == << [key |-> "numFlashcardsPerWord", value |-> count] >>

\* the stored config files: the default one missing, unparsable or an
\* object; a created one missing or an object
StoredFiles ==
    { [path \in ConfigPaths |->
          IF path = InGeneratorConfigs(JsonFileName(DefaultName)) THEN default
          ELSE IF path = InGeneratorConfigs(JsonFileName(NewConfigName(1))) THEN created
          ELSE MissingFile] :
      default \in { MissingFile, UnparsableFile, JsonObject(<<>>), JsonObject(PerWord(1)) },
      created \in { MissingFile, JsonObject(PerWord(1)) } }

InitConfig ==
    /\ \E appConfig \in StoredAppConfigs, files \in StoredFiles :
           call = [stage |-> "stored",
                   disk |-> [appConfig |-> appConfig, files |-> files],
                   before |-> [appConfig |-> appConfig, files |-> files],
                   configName |-> NoName, configFilePath |-> NoPath,
                   count |-> 0, raises |-> "none", value |-> None,
                   commands |-> 0]
    /\ sentenceLines = <<>>
    /\ numFlashcardsPerWord = 1
    /\ outputOrder = <<>>
    /\ wordsToBury = <<>>
    /\ outputFile = NoFile
    /\ outcome = "none"
    /\ NoRun
    /\ roundTrip = NoRoundTrip

\* the command after which the stored configurations are as result leaves them
Command(stage, configName, configFilePath, count, result) ==
    /\ call.commands < MaxCommands
    /\ call' = [stage |-> stage, disk |-> result.disk, before |-> call.disk,
                configName |-> configName, configFilePath |-> configFilePath,
                count |-> count, raises |-> result.raises, value |-> result.value,
                commands |-> call.commands + 1]
    /\ UNCHANGED <<sentenceLines, numFlashcardsPerWord, outputOrder, wordsToBury,
                   outputFile, existingClozeFlashcards, uniqueWordIdToWordObjects,
                   inUseClozeFlashcards, wordToSimpleClozeFlashcards, searches, outcome,
                   runs, edits, edited, consecutive, roundTrip>>

\* a command that reads the name of the current config
GetCurrentConfigName ==
    Command("named", NoName, NoPath, 0, getCurrentConfigName(call.disk))

\* a command that reads a config file
GetConfigJson(configFilePath) ==
    Command("read", NoName, configFilePath, 0,
            getConfigJson(call.disk, configFilePath, 1))

\* the command setFlashcardsPerWord of the app:
\* setConfigFlashcardsPerWord(getCurrentConfigName(), count)
SetFlashcardsPerWord(count) ==
    LET Set(currentConfigName) ==
            IF currentConfigName.raises # "none"
            THEN Command("updated", NoName, NoPath, count, currentConfigName)
            ELSE Command("updated", currentConfigName.value, NoPath, count,
                         setConfigFlashcardsPerWord(currentConfigName.disk,
                                                    currentConfigName.value, count))
    IN  Set(getCurrentConfigName(call.disk))

NextConfig ==
    \/ GetCurrentConfigName
    \/ \E configFilePath \in ConfigPaths : GetConfigJson(configFilePath)
    \/ \E count \in 1..MaxTarget : SetFlashcardsPerWord(count)

SpecConfig == InitConfig /\ [][NextConfig]_vars

(***************************************************************************)
(* Properties                                                              *)
(***************************************************************************)
\* the last step was a run that wrote its output: nothing has been edited since
Completed == outcome = "written" /\ ~edited

\* two stored flashcards agree on the five text fields
SameText(c, d) ==
    /\ c.beforeCloze = d.beforeCloze
    /\ c.midCloze = d.midCloze
    /\ c.afterCloze = d.afterCloze
    /\ c.clozeWordPart1 = d.clozeWordPart1
    /\ c.clozeWordPart2 = d.clozeWordPart2

\* the stored flashcards of a key of a file
StoredUnder(file, key) ==
    IF \E k \in 1..Len(file.data) : file.data[k].key = key
    THEN file.data[CHOOSE k \in 1..Len(file.data) : file.data[k].key = key].cards
    ELSE <<>>

\* the stored flashcards flagged in use that the last run read, with their keys
StoredInUse ==
    UNION { { [key |-> existingClozeFlashcards.data[k].key,
               card |-> existingClozeFlashcards.data[k].cards[i]] :
                 i \in { j \in 1..Len(existingClozeFlashcards.data[k].cards) :
                           existingClozeFlashcards.data[k].cards[j].inUse = "True" } } :
            k \in 1..Len(existingClozeFlashcards.data) }

\* C1: every run that completes keeps every stored flashcard flagged in use:
\* its output holds, under that flashcard's key, a flashcard with the same
\* five text fields and inUse still "True".
InUseNeverDropped ==
    Completed =>
        \A s \in StoredInUse :
            \E i \in 1..Len(StoredUnder(outputFile, s.key)) :
                /\ SameText(StoredUnder(outputFile, s.key)[i], s.card)
                /\ StoredUnder(outputFile, s.key)[i].inUse = "True"

\* C3: serializing a flashcard, reconstructing a line and a blank index from
\* the stored form and serializing again gives the stored form back.
RoundTripIdentity ==
    roundTrip.stage \in {"reserialized", "IndexError"} =>
        /\ roundTrip.stage = "reserialized"
        /\ roundTrip.second = roundTrip.first

\* C4: when the corpus holds the occurrence a stored in-use flashcard was made
\* from, the output for the key holds that flashcard exactly once, and the
\* one it holds is the in-use copy.
CoveredOccurrenceOnce ==
    Completed =>
        \A s \in StoredInUse :
            LET occurrences == IF HasKey(uniqueWordIdToWordObjects, s.key)
                               THEN uniqueWordIdToWordObjects[
                                        KeyIndex(uniqueWordIdToWordObjects, s.key)].words
                               ELSE <<>>
                emitted == StoredUnder(outputFile, s.key)
                same == { j \in 1..Len(emitted) : SameText(emitted[j], s.card) }
            IN  (\E i \in 1..Len(occurrences) :
                    SameText(toJsonableDict(NewSimpleClozeFlashcard(occurrences[i])), s.card))
                => /\ Cardinality(same) = 1
                   /\ \A j \in same : emitted[j].inUse = "True"

\* the keys of the occurrences index and of the in-use index of the last run
RunKeys ==
    { uniqueWordIdToWordObjects[k].key : k \in 1..Len(uniqueWordIdToWordObjects) }
    \cup { inUseClozeFlashcards[k].key : k \in 1..Len(inUseClozeFlashcards) }

OccurrencesOf(key) ==
    IF HasKey(uniqueWordIdToWordObjects, key)
    THEN uniqueWordIdToWordObjects[KeyIndex(uniqueWordIdToWordObjects, key)].words
    ELSE <<>>

\* the number of occurrences of a key that no in-use flashcard of the key
\* covers: same line, same blank index
NumUnused(key) ==
    Cardinality({ i \in 1..Len(OccurrencesOf(key)) :
        ~\E j \in 1..Len(CardsOf(inUseClozeFlashcards, key)) :
            /\ CardsOf(inUseClozeFlashcards, key)[j].line.id = OccurrencesOf(key)[i].line.id
            /\ CardsOf(inUseClozeFlashcards, key)[j].wordIndex = OccurrencesOf(key)[i].index })

NumInUseOf(key) == Len(CardsOf(inUseClozeFlashcards, key))

\* C5: for every key with unused + in-use at most the target, the result
\* holds exactly unused + in-use flashcards for it, no two of them equal on
\* the five text fields.
CoverageLaw ==
    Completed =>
        \A key \in RunKeys :
            NumUnused(key) + NumInUseOf(key) <= numFlashcardsPerWord =>
                LET cards == CardsOf(wordToSimpleClozeFlashcards, key)
                IN  /\ Len(cards) = NumUnused(key) + NumInUseOf(key)
                    /\ \A i, j \in 1..Len(cards) : i < j => ~SimpleEq(cards[i], cards[j])

\* the count half of C5 alone
CoverageCount ==
    Completed =>
        \A key \in RunKeys :
            NumUnused(key) + NumInUseOf(key) <= numFlashcardsPerWord =>
                Len(CardsOf(wordToSimpleClozeFlashcards, key))
                    = NumUnused(key) + NumInUseOf(key)

\* the score of combination number c of a search, computed afresh: the sum
\* of the dissimilarities of all its pairs of lines
RECURSIVE FreshSum(_, _, _, _)
FreshSum(pairs, combination, lineIdToWord, sum) ==
    IF pairs = <<>> THEN sum
    ELSE FreshSum(Tail(pairs), combination, lineIdToWord,
             DoubleAdd(sum,
                 CosDissimilarity(WordOf(lineIdToWord, combination[Head(pairs)[1]]).line,
                                  WordOf(lineIdToWord, combination[Head(pairs)[2]]).line,
                                  uniqueWordIdToWordObjects)))

ScoreOf(search, c) ==
    FreshSum(PairsOf(Len(search.newCombinations[c])), search.newCombinations[c],
             search.lineIdToWord, DoubleZero)

\* the combinations of a search no other combination beats
BestOf(search) ==
    { c \in 1..Len(search.newCombinations) :
        \A d \in 1..Len(search.newCombinations) :
            ~DoubleLess(ScoreOf(search, c), ScoreOf(search, d)) }

\* C6: on the search path findMostDifferentCombination returns a combination
\* whose score is at least the score of every other combination, as
\* brute-force enumeration over all the combinations does.
SearchOptimal ==
    \A s \in 1..Len(searches) :
        searches[s].newCombinations # <<>> =>
            searches[s].bestCombination \in BestOf(searches[s])

\* the corpus of the tie-break scenario and the flashcards of its first two
\* sentences for the key b
TieBreakCorpus ==
    << <<"a", " ", "b", " ", "c", ".">>, <<"b", " ", "d", " ", "e", ".">>,
       <<"b", " ", "f", " ", "g", ".">> >>

TieBreakExpected ==
    << [beforeCloze |-> <<"a">>, midCloze |-> <<>>, afterCloze |-> <<"c", ".">>,
        clozeWordPart1 |-> <<"b">>, clozeWordPart2 |-> <<>>, inUse |-> "False"],
       [beforeCloze |-> <<>>, midCloze |-> <<>>, afterCloze |-> <<"d", " ", "e", ".">>,
        clozeWordPart1 |-> <<"b">>, clozeWordPart2 |-> <<>>, inUse |-> "False"] >>

\* the scenario of C7 alone
TieBreakScenario ==
    (/\ Completed
     /\ sentenceLines = TieBreakCorpus
     /\ numFlashcardsPerWord = 2
     /\ inUseClozeFlashcards = <<>>)
    => StoredUnder(outputFile, <<"b">>) = TieBreakExpected

\* C7: when several combinations share the best score the search keeps the
\* first of them in enumeration order; in the scenario the flashcards of b are
\* those of the first two sentences.
TieBreakFirstFound ==
    /\ \A s \in 1..Len(searches) :
           searches[s].newCombinations # <<>> =>
               /\ searches[s].bestCombination \in BestOf(searches[s])
               /\ \A c \in BestOf(searches[s]) : searches[s].bestCombination <= c
    /\ TieBreakScenario

\* C8: a run that follows a completed run at once, on the same corpus and
\* configuration and with no flag changed, writes the file it read.
Idempotent ==
    (/\ consecutive
     /\ Completed
     /\ outputOrder = Reverse(outputOrder))
    => outputFile = existingClozeFlashcards

\* the surface forms of the members of the expression an occurrence starts
MembersOf(word) ==
    LET indices == MweIndices(word.line, MweOf(word.line, word.index))
    IN  [i \in 1..Len(indices) |-> word.line.words[indices[i] + 1].thisWordString]

SameMembers(m1, m2) ==
    /\ Len(m1) = Len(m2)
    /\ \A i \in 1..Len(m1) :
           Cardinality({ j \in 1..Len(m1) : m1[j] = m1[i] })
               = Cardinality({ j \in 1..Len(m2) : m2[j] = m1[i] })

\* C9: two occurrences whose expressions have the same member surface forms,
\* in whatever order, are grouped under one key of the occurrences index.
ExpressionIdentityOrderIndependent ==
    \A k1, k2 \in 1..Len(uniqueWordIdToWordObjects) :
        \A i1 \in 1..Len(uniqueWordIdToWordObjects[k1].words) :
            \A i2 \in 1..Len(uniqueWordIdToWordObjects[k2].words) :
                SameMembers(MembersOf(uniqueWordIdToWordObjects[k1].words[i1]),
                            MembersOf(uniqueWordIdToWordObjects[k2].words[i2]))
                => k1 = k2

\* C10: for a key whose in-use flashcards are at least the target, no search
\* is run and the result for the key is exactly its in-use flashcards, in
\* order, however many they are.
FastPathKeepsInUse ==
    Completed =>
        \A k \in 1..Len(inUseClozeFlashcards) :
            Len(inUseClozeFlashcards[k].cards) >= numFlashcardsPerWord =>
                LET cards == CardsOf(wordToSimpleClozeFlashcards, inUseClozeFlashcards[k].key)
                IN  /\ Len(cards) = Len(inUseClozeFlashcards[k].cards)
                    /\ \A i \in 1..Len(cards) :
                           cards[i] = GetSimpleClozeFlashcard(inUseClozeFlashcards[k].cards[i])
                    /\ \A s \in 1..Len(searches) :
                           searches[s].uniqueWordId # inUseClozeFlashcards[k].key

\* a run has kept more in-use flashcards of a key than the target while the
\* corpus held an occurrence of the key that none of them covers
FastPathOverTarget ==
    /\ Completed
    /\ \E k \in 1..Len(inUseClozeFlashcards) :
           /\ Len(inUseClozeFlashcards[k].cards) > numFlashcardsPerWord
           /\ NumUnused(inUseClozeFlashcards[k].key) > 0

\* C2: the persistence check aborts the run, the stored file left as it was,
\* exactly when a key of the in-use index is no key of the result set or an
\* in-use flashcard equals, on the five text fields, no flashcard of the
\* result set under its key; otherwise the run goes on and writes its output.
PersistCheckAborts ==
    [][outcome = "generated" =>
        LET missing ==
                \E k \in 1..Len(inUseClozeFlashcards) :
                    \/ inUseClozeFlashcards[k].key \notin
                           { wordToSimpleClozeFlashcards[r].key :
                               r \in 1..Len(wordToSimpleClozeFlashcards) }
                    \/ \E i \in 1..Len(inUseClozeFlashcards[k].cards) :
                           \A r \in 1..Len(wordToSimpleClozeFlashcards) :
                               wordToSimpleClozeFlashcards[r].key = inUseClozeFlashcards[k].key
                               => \A j \in 1..Len(wordToSimpleClozeFlashcards[r].cards) :
                                      ~SameText(
                                          toJsonableDict(GetSimpleClozeFlashcard(
                                              inUseClozeFlashcards[k].cards[i])),
                                          toJsonableDict(wordToSimpleClozeFlashcards[r].cards[j]))
        IN  /\ missing => outcome' = "exit" /\ outputFile' = outputFile
            /\ ~missing => outcome' = "written" /\ outputFile'.exists]_vars

\* the check has aborted over a flashcard, every in-use key being a key of
\* the result set
PersistAbortOverFlashcard ==
    /\ outcome = "exit"
    /\ inUseClozeFlashcards # <<>>
    /\ \A k \in 1..Len(inUseClozeFlashcards) :
           HasKey(wordToSimpleClozeFlashcards, inUseClozeFlashcards[k].key)

\* the frequency vector of a line has no magnitude: no word of the line has
\* its identity among the keys of the occurrences index
NoMagnitude(lineString) ==
    LET line == parseSentenceLine(lineString, <<>>, FALSE).line
    IN  \A i \in 0..(Len(line.words) - 1) :
            getUniqueWordId(line, i) \notin
                { uniqueWordIdToWordObjects[k].key : k \in 1..Len(uniqueWordIdToWordObjects) }

\* a dissimilarity has been returned for two lines of which at least one has
\* a vector of no magnitude
ReturnedOnNoMagnitude ==
    /\ call.stage = "getCosDissimilarity"
    /\ call.calls > 0
    /\ NoMagnitude(call.line1) \/ NoMagnitude(call.line2)

\* C11: the cosine dissimilarity of two lines is 0 whenever at least one of
\* the two frequency vectors has zero magnitude.
DissimilarityZeroOnNoMagnitude ==
    ReturnedOnNoMagnitude => call.value = DoubleZero

\* C11, amended: the cosine dissimilarity of two lines is 1 whenever at least
\* one of the two frequency vectors has zero magnitude, on the first call and
\* on every later call that finds the value memoized.
DissimilarityOneOnNoMagnitude ==
    ReturnedOnNoMagnitude => call.value = DoubleOne

\* a dissimilarity has been returned, over an index with keys, for a line
\* with a vector of no magnitude and a line with a vector that has one
OneVectorWithoutMagnitude ==
    /\ call.stage = "getCosDissimilarity"
    /\ call.calls > 0
    /\ uniqueWordIdToWordObjects # <<>>
    /\ NoMagnitude(call.line1)
    /\ ~NoMagnitude(call.line2)

\* C12: two ClozeFlashcards compare equal if and only if their serializable
\* forms agree on the five text fields, whatever the inUse flag of either and
\* whether or not the simple form of either has been computed and stored.
EqualityOnFiveFields ==
    call.stage = "compared" =>
        (call.equal <=>
            SameText(toJsonableDict(SimpleFormOf(call.self)),
                     toJsonableDict(SimpleFormOf(call.other))))

\* the last run has come back from makeInUseClozeFlashcards and nothing has
\* been edited since
Reconstructed == outcome \in {"written", "exit", "KeyError"} /\ ~edited

\* C13: reconstructing the in-use flashcards from the stored file leaves the
\* occurrences index as parsing the corpus built it: the same keys in the
\* same order, the same occurrences under each key.
ReconstructionLeavesIndex ==
    Reconstructed =>
        uniqueWordIdToWordObjects = ParseSentenceLines(sentenceLines, <<>>)

\* in-use flashcards have been reconstructed, one under a key of the index
\* and one under a key the index does not hold
ReconstructedBesideIndex ==
    /\ Reconstructed
    /\ \E k \in 1..Len(inUseClozeFlashcards) :
           HasKey(uniqueWordIdToWordObjects, inUseClozeFlashcards[k].key)
    /\ \E k \in 1..Len(inUseClozeFlashcards) :
           ~HasKey(uniqueWordIdToWordObjects, inUseClozeFlashcards[k].key)

\* a stored file with every entry not flagged in use taken out
Stripped(file) ==
    IF ~file.exists THEN file
    ELSE JsonFile([k \in 1..Len(file.data) |->
             [key |-> file.data[k].key,
              cards |-> SelectSeq(file.data[k].cards, LAMBDA c : c.inUse = "True")]])

\* a stored file with the text of every entry not flagged in use replaced
Rewritten(file) ==
    IF ~file.exists THEN file
    ELSE JsonFile([k \in 1..Len(file.data) |->
             [key |-> file.data[k].key,
              cards |-> [i \in 1..Len(file.data[k].cards) |->
                  IF file.data[k].cards[i].inUse = "True" THEN file.data[k].cards[i]
                  ELSE [beforeCloze |-> <<"z">>, midCloze |-> <<>>,
                        afterCloze |-> <<"z">>, clozeWordPart1 |-> <<"z">>,
                        clozeWordPart2 |-> <<>>, inUse |-> "False"]]]])

\* a stored file with one more key holding an entry not flagged in use
Extended(file) ==
    JsonFile(file.data \o
        << [key |-> <<"z">>,
            cards |-> << [beforeCloze |-> <<"a">>, midCloze |-> <<>>,
                          afterCloze |-> <<>>, clozeWordPart1 |-> <<"z">>,
                          clozeWordPart2 |-> <<>>, inUse |-> "False"] >>] >>)

\* stored files with the in-use entries of a file, in its order, that differ
\* from it only in entries not flagged in use
Variants(file) == { Stripped(file), Rewritten(file), Extended(file) }

\* the list outputOrder as the last run was handed it: a run that reaches the
\* sorting has reversed the list in place
OrderBefore ==
    IF outcome \in {"written", "KeyError"} THEN Reverse(outputOrder) ELSE outputOrder

\* C14: a run on the same corpus and configuration whose stored file holds
\* the same in-use entries in the same order, and differs only in entries not
\* flagged in use, ends the same way with the same result set and writes the
\* same output.
OnlyInUseEntriesInfluence ==
    (outcome # "none" /\ ~edited) =>
        \A variant \in Variants(existingClozeFlashcards) :
            LET twin == RunMain(sentenceLines, numFlashcardsPerWord, OrderBefore,
                                wordsToBury, variant)
            IN  /\ twin.outcome = outcome
                /\ twin.wordToSimpleClozeFlashcards = wordToSimpleClozeFlashcards
                /\ outcome = "written" => twin.file = outputFile

\* a run has completed on a stored file that holds entries flagged in use
\* and entries not flagged in use
ReadMixedFile ==
    /\ Completed
    /\ \E k \in 1..Len(existingClozeFlashcards.data) :
           \E i \in 1..Len(existingClozeFlashcards.data[k].cards) :
               existingClozeFlashcards.data[k].cards[i].inUse = "True"
    /\ \E k \in 1..Len(existingClozeFlashcards.data) :
           \E i \in 1..Len(existingClozeFlashcards.data[k].cards) :
               existingClozeFlashcards.data[k].cards[i].inUse = "False"

\* the last step was a run of main, however it ended
JustRan == outcome # "none" /\ ~edited

InvalidLine(line) ==
    \/ \A i \in 1..Len(line) : line[i] \notin Letters
    \/ \E i \in 1..(Len(line) - 1) : line[i] = " " /\ line[i + 1] = " "
    \/ \E i \in 1..Len(line) :
           line[i] \notin Letters \cup Digits \cup {" ", "_", "\"", ",", ".", "?"}

NeedsSearch(key) ==
    /\ NumInUseOf(key) < numFlashcardsPerWord
    /\ NumUnused(key) + NumInUseOf(key) > numFlashcardsPerWord

\* a search of the last run found no combination
SearchFoundNothing == \E s \in 1..Len(searches) : searches[s].bestCombination = 0

\* C17: when the search of a key finds no combination the key is skipped for
\* the run: its flashcards in the result are its in-use flashcards and no
\* other, the keys after it that need a search still get theirs, a search
\* that finds a combination fills its key up to the target, and the run goes
\* on to write its output (or to the KeyError of the frequency order over an
\* in-use key that the corpus does not hold).
NoCombinationSkipsKey ==
    (JustRan /\ outcome \notin {"invalid lines", "IndexError"}) =>
        /\ [s \in 1..Len(searches) |-> searches[s].uniqueWordId]
               = SelectSeq([k \in 1..Len(uniqueWordIdToWordObjects) |->
                               uniqueWordIdToWordObjects[k].key],
                           LAMBDA key : NeedsSearch(key))
        /\ \A s \in 1..Len(searches) :
               LET cards == CardsOf(wordToSimpleClozeFlashcards, searches[s].uniqueWordId)
                   inUse == CardsOf(inUseClozeFlashcards, searches[s].uniqueWordId)
               IN  IF searches[s].bestCombination = 0
                   THEN /\ Len(cards) = Len(inUse)
                        /\ \A i \in 1..Len(inUse) :
                               /\ SameText(toJsonableDict(cards[i]),
                                      toJsonableDict(GetSimpleClozeFlashcard(inUse[i])))
                               /\ toJsonableDict(cards[i]).inUse = "True"
                   ELSE Len(cards) = numFlashcardsPerWord
        /\ SearchFoundNothing =>
               \/ outcome = "written"
               \/ /\ outcome = "KeyError"
                  /\ \E k \in 1..Len(inUseClozeFlashcards) :
                         ~HasKey(uniqueWordIdToWordObjects, inUseClozeFlashcards[k].key)

\* a run has written its output after a search without any combination for
\* one key and, later, a search that found one for another key
SkippedThenFound ==
    /\ Completed
    /\ \E s, t \in 1..Len(searches) :
           /\ s < t
           /\ searches[s].newCombinations = <<>>
           /\ searches[s].bestCombination = 0
           /\ searches[t].bestCombination # 0

\* a run has written its output after a search that found nothing for a key
\* with an in-use flashcard
SkippedWithInUse ==
    /\ Completed
    /\ \E s \in 1..Len(searches) :
           /\ searches[s].bestCombination = 0
           /\ searches[s].inUseIds # <<>>

\* a chunk holds punctuation only
PunctuationOnly(chunk) ==
    \A i \in 1..Len(chunk) : chunk[i] \in {"\"", ",", ".", "?", "_"}

\* the number of chunks before chunk number j that give a token
TokensBefore(chunks, j) ==
    Cardinality({ i \in 1..(j - 1) : ~PunctuationOnly(chunks[i]) })

NumTokens(chunks) == TokensBefore(chunks, Len(chunks) + 1)

\* the chunk that gives token number t (from 0)
ChunkOfToken(chunks, t) ==
    chunks[CHOOSE j \in 1..Len(chunks) :
               ~PunctuationOnly(chunks[j]) /\ TokensBefore(chunks, j) = t]

\* the lengths of the punctuation that opens and that closes a chunk with a
\* token in it
OpeningLength(chunk) ==
    CHOOSE k \in 0..Len(chunk) :
        /\ \A i \in 1..k : chunk[i] \in {"\"", ",", ".", "?", "_"}
        /\ chunk[k + 1] \notin {"\"", ",", ".", "?", "_"}

ClosingLength(chunk) ==
    CHOOSE k \in 0..Len(chunk) :
        /\ \A i \in (Len(chunk) - k + 1)..Len(chunk) : chunk[i] \in {"\"", ",", ".", "?", "_"}
        /\ chunk[Len(chunk) - k] \notin {"\"", ",", ".", "?", "_"}

\* the marks one chunk gives: itself as an alone mark, or the punctuation
\* that wraps its token
MarksOfChunk(chunk) ==
    IF PunctuationOnly(chunk) THEN << [character |-> chunk, wordPosition |-> "ALONE"] >>
    ELSE (IF OpeningLength(chunk) > 0
          THEN << [character |-> SubSeq(chunk, 1, OpeningLength(chunk)),
                   wordPosition |-> "BEFORE"] >>
          ELSE <<>>)
         \o (IF ClosingLength(chunk) > 0
             THEN << [character |-> SubSeq(chunk, Len(chunk) - ClosingLength(chunk) + 1,
                                           Len(chunk)),
                      wordPosition |-> "AFTER"] >>
             ELSE <<>>)

\* the marks due at token index r, in chunk order: those of the alone chunks
\* that stand between token r - 1 and token r and those that wrap token r
RECURSIVE MarksDueFrom(_, _, _)
MarksDueFrom(chunks, j, r) ==
    IF j > Len(chunks) THEN <<>>
    ELSE (IF TokensBefore(chunks, j) = r THEN MarksOfChunk(chunks[j]) ELSE <<>>)
         \o MarksDueFrom(chunks, j + 1, r)

\* the text of a token: its chunk without the punctuation around it and
\* without its tag
SurfaceForm(chunk) ==
    LET bare == SubSeq(chunk, OpeningLength(chunk) + 1, Len(chunk) - ClosingLength(chunk))
    IN  IF \E i \in 1..Len(bare) : bare[i] = "_"
        THEN SubSeq(bare, 1, (CHOOSE i \in 1..Len(bare) : bare[i] = "_") - 1)
        ELSE bare

\* C18: a line of n chunks with a token in them parses to n words, in chunk
\* order, with the indices 0..n-1; a chunk of punctuation only gives no
\* word; the marks around a token are recorded at the token's index and a
\* mark standing alone at the index of the next token, n at the end of the
\* line; nothing else is recorded.
TokenIndicesAndMarks ==
    call.stage = "parsed" =>
        LET n == NumTokens(call.chunks)
        IN  /\ Len(call.line.words) = n
            /\ call.indices = [k \in 1..n |-> k - 1]
            /\ \A k \in 1..n :
                   call.line.words[k].thisWordString
                       = SurfaceForm(ChunkOfToken(call.chunks, k - 1))
            /\ DOMAIN call.line.punctuationDict \subseteq 0..n
            /\ \A r \in 0..n :
                   DictGet(call.line.punctuationDict, r) = MarksDueFrom(call.chunks, 1, r)

\* a line has been parsed that holds a token, then a mark standing alone,
\* then a token wrapped in punctuation on both sides
ParsedAloneThenWrapped ==
    /\ call.stage = "parsed"
    /\ Len(call.chunks) = 3
    /\ ~PunctuationOnly(call.chunks[1])
    /\ PunctuationOnly(call.chunks[2])
    /\ call.chunks[3] = <<"\"", "b", "?">>

\* a line has been parsed that ends with a mark standing alone after a token
ParsedAloneAtEnd ==
    /\ call.stage = "parsed"
    /\ Len(call.chunks) > 1
    /\ ~PunctuationOnly(call.chunks[1])
    /\ PunctuationOnly(call.chunks[Len(call.chunks)])

\* the tag of a token: what follows the underscore of its chunk, the
\* punctuation around it set aside; no tag is the empty string
TagOf(chunk) ==
    LET bare == SubSeq(chunk, OpeningLength(chunk) + 1, Len(chunk) - ClosingLength(chunk))
    IN  IF \E j \in 1..Len(bare) : bare[j] = "_"
        THEN SubSeq(bare, (CHOOSE j \in 1..Len(bare) : bare[j] = "_") + 1, Len(bare))
        ELSE <<>>

\* the tokens (from 0) of the lexical unit of token t, in sentence order: t
\* alone when it has no tag, the tokens of its tag otherwise
UnitOf(chunks, t) ==
    SelectSeq([u \in 1..NumTokens(chunks) |-> u - 1],
        LAMBDA u : \/ u = t
                   \/ /\ TagOf(ChunkOfToken(chunks, t)) # <<>>
                      /\ TagOf(ChunkOfToken(chunks, u)) = TagOf(ChunkOfToken(chunks, t)))

\* the first tokens of the lexical units of a line
UnitLeaders(chunks) ==
    { t \in 0..(NumTokens(chunks) - 1) : UnitOf(chunks, t)[1] = t }

\* a list of strings in alphabetical order
Alphabetical(forms) ==
    LET q == CHOOSE q \in [1..Len(forms) -> 1..Len(forms)] :
                 /\ \A x, y \in 1..Len(forms) : x # y => q[x] # q[y]
                 /\ \A x, y \in 1..Len(forms) :
                        x < y => ~StrLess(forms[q[y]], forms[q[x]])
    IN  [x \in 1..Len(forms) |-> forms[q[x]]]

\* the lexical identity of the unit that token t leads: the surface forms of
\* its members put together, in alphabetical order or as they stand
IdentityOf(chunks, t, alphabetical) ==
    LET members == UnitOf(chunks, t)
        forms == [x \in 1..Len(members) |->
                     SurfaceForm(ChunkOfToken(chunks, members[x]))]
    IN  join(<<" ">>, IF alphabetical THEN Alphabetical(forms) ELSE forms)

\* the occurrences a key had before the call
OccurrencesBefore(key) ==
    IF HasKey(call.before, key) THEN call.before[KeyIndex(call.before, key)].words
    ELSE <<>>

\* the call has registered one occurrence for each lexical unit of the line
\* and nothing else, and has kept what the index held, in its order
RegisteredPerUnit(alphabetical) ==
    /\ Len(uniqueWordIdToWordObjects) >= Len(call.before)
    /\ \A k \in 1..Len(call.before) :
           /\ uniqueWordIdToWordObjects[k].key = call.before[k].key
           /\ SubSeq(uniqueWordIdToWordObjects[k].words, 1, Len(call.before[k].words))
                  = call.before[k].words
    /\ SumSeq([k \in 1..Len(uniqueWordIdToWordObjects) |->
                  Len(uniqueWordIdToWordObjects[k].words)
                      - Len(OccurrencesBefore(uniqueWordIdToWordObjects[k].key))])
           = Cardinality(UnitLeaders(call.chunks))
    /\ \A t \in UnitLeaders(call.chunks) :
           \E k \in 1..Len(uniqueWordIdToWordObjects) :
               /\ uniqueWordIdToWordObjects[k].key
                      = IdentityOf(call.chunks, t, alphabetical)
               /\ \E x \in 1..Len(uniqueWordIdToWordObjects[k].words) :
                      /\ x > Len(OccurrencesBefore(uniqueWordIdToWordObjects[k].key))
                      /\ uniqueWordIdToWordObjects[k].words[x] = WordRef(call.line, t)

\* C19: parsing one line of the corpus adds to the occurrences index exactly
\* one occurrence per lexical unit of the line, the first token of each
\* expression and each token standing by itself, each under its own lexical
\* identity (the members' surface forms in alphabetical order); no other
\* token is registered and no occurrence is removed or moved.
RegistersOnePerUnit ==
    (call.stage = "parsed" /\ call.addWordsToClassDict) => RegisteredPerUnit(TRUE)

\* the same with the identity of an expression read as its members' surface
\* forms in the order in which they stand in the line
RegistersOnePerUnitAsTheyStand ==
    (call.stage = "parsed" /\ call.addWordsToClassDict) => RegisteredPerUnit(FALSE)

\* the members of the expression blanked, as a set of token indices
BlankedMembers ==
    { UnitOf(call.chunks, call.wordIndex)[x] :
        x \in 1..Len(UnitOf(call.chunks, call.wordIndex)) }

\* the number of runs of members standing next to one another
MemberRuns == Cardinality({ t \in BlankedMembers : (t - 1) \notin BlankedMembers })

\* the five ranges follow one another from the first token to the last, the
\* two cloze ranges hold the members and nothing else, the middle range the
\* other tokens that stand between members and nothing else, the first range
\* the tokens before the first member and the last those after the last
RangesFitMembers ==
    LET ends == call.ends
        first == CHOOSE t \in BlankedMembers : \A u \in BlankedMembers : t <= u
        last == CHOOSE t \in BlankedMembers : \A u \in BlankedMembers : u <= t
    IN  /\ 0 <= ends[1] /\ ends[5] = NumTokens(call.chunks)
        /\ \A x \in 1..4 : ends[x] <= ends[x + 1]
        /\ ends[1] = first
        /\ ends[4] = last + 1
        /\ (ends[1]..(ends[2] - 1)) \cup (ends[3]..(ends[4] - 1)) = BlankedMembers
        /\ ends[2]..(ends[3] - 1) = (first..last) \ BlankedMembers

\* the claim of C20 as it stands: for a blank on an expression the five
\* ranges fit its members however they are interleaved with other tokens
RangesFitHoweverInterleaved ==
    (call.stage = "carved" /\ Cardinality(BlankedMembers) > 1) => RangesFitMembers

\* C20: for a blank on an expression whose members stand in at most two
\* runs of adjacent tokens, the five ranges are contiguous, in sentence order
\* and cover every token once; clozePart1 and clozePart2 hold exactly the
\* members, midCloze exactly the other tokens between members, beforeCloze
\* the tokens before the first member and afterCloze those after the last.
RangesFitUpToTwoRuns ==
    (call.stage = "carved" /\ Cardinality(BlankedMembers) > 1 /\ MemberRuns <= 2)
        => RangesFitMembers

\* the ranges have been carved for an expression in two runs, with tokens
\* before it, between its runs and after it
CarvedSplitExpression ==
    /\ call.stage = "carved"
    /\ Cardinality(BlankedMembers) > 1
    /\ MemberRuns = 2
    /\ call.ends[1] > 0
    /\ call.ends[4] < call.ends[5]

\* a chunk as a flashcard is to show it: the chunk without its tag
Untagged(chunk) ==
    IF PunctuationOnly(chunk) THEN chunk
    ELSE SubSeq(chunk, 1, OpeningLength(chunk))
         \o SurfaceForm(chunk)
         \o SubSeq(chunk, Len(chunk) - ClosingLength(chunk) + 1, Len(chunk))

\* the chunks of the five segments of the flashcard serialized, from
\* beforeCloze to afterCloze
SegmentChunks ==
    split(roundTrip.first.beforeCloze) \o split(roundTrip.first.clozeWordPart1)
    \o split(roundTrip.first.midCloze) \o split(roundTrip.first.clozeWordPart2)
    \o split(roundTrip.first.afterCloze)

\* the punctuation characters of a list of chunks, in order
RECURSIVE MarksIn(_)
MarksIn(chunks) ==
    IF chunks = <<>> THEN <<>>
    ELSE SelectSeq(Head(chunks), LAMBDA c : c \in {"\"", ",", ".", "?", "_"})
         \o MarksIn(Tail(chunks))

\* the chunks of the line serialized, tags taken off
LineChunks ==
    [j \in 1..Len(split(roundTrip.lineString)) |->
        Untagged(split(roundTrip.lineString)[j])]

\* C21: for every sentence and blank position every punctuation mark of the
\* sentence, before or after a token or alone, appears exactly once and in
\* sentence order across the five segments.
PunctuationReproduced ==
    roundTrip.stage = "serialized" => MarksIn(SegmentChunks) = MarksIn(LineChunks)

\* an alone mark stands between two tokens of the line that are members of
\* the expression blanked and next to one another
AloneInsideCloze ==
    LET line == parseSentenceLine(roundTrip.lineString, <<>>, TRUE).line
        members == MweIndices(line, MweOf(line, roundTrip.wordIndex))
    IN  \E x \in 1..(Len(members) - 1) :
            /\ members[x + 1] = members[x] + 1
            /\ \E m \in 1..Len(DictGet(line.punctuationDict, members[x + 1])) :
                   DictGet(line.punctuationDict, members[x + 1])[m].wordPosition = "ALONE"

\* the same for the sentences in which no alone mark stands between two
\* members of the expression blanked: chunk for chunk the segments are the line
PunctuationReproducedOutsideCloze ==
    (roundTrip.stage = "serialized" /\ ~AloneInsideCloze) => SegmentChunks = LineChunks

\* the entries of the memo a search leaves whose two ids are ids of lines of
\* the search
EntriesOf(search) ==
    { pair \in DOMAIN search.calculatedCosDissimilarities :
        /\ HasKey(search.lineIdToWord, pair[1])
        /\ HasKey(search.lineIdToWord, pair[2]) }

\* the entry of a search's memo is the dissimilarity of the two lines of the
\* search that carry its ids, computed afresh
EntryFresh(search, pair) ==
    search.calculatedCosDissimilarities[pair]
        = CosDissimilarity(WordOf(search.lineIdToWord, pair[1]).line,
                           WordOf(search.lineIdToWord, pair[2]).line,
                           uniqueWordIdToWordObjects)

\* the combination the search of a key returns when it starts on an empty
\* memo
BestWithoutMemo(search) ==
    findMostDifferentCombination(search.newCombinations, search.lineIdToWord,
        << >>, uniqueWordIdToWordObjects).best

\* C22: within a run every memoized dissimilarity is what a fresh computation
\* for the lines of its key returns, and every search returns the combination
\* it returns with no memo.
MemoizationTransparent ==
    \A s \in 1..Len(searches) :
        /\ \A pair \in EntriesOf(searches[s]) : EntryFresh(searches[s], pair)
        /\ searches[s].bestCombination = BestWithoutMemo(searches[s])

\* a search was answered from entries an earlier search of the run left
SearchReadMemo ==
    \E s \in 2..Len(searches) :
        /\ searches[s].bestCombination # 0
        /\ EntriesOf(searches[s]) \cap DOMAIN searches[s - 1].calculatedCosDissimilarities # {}

\* the same where the memo holds no entry for two lines of one string
MemoizationTransparentPerString ==
    (\A s \in 1..Len(searches) : \A pair \in EntriesOf(searches[s]) :
         EntryFresh(searches[s], pair)) =>
        \A s \in 1..Len(searches) :
            searches[s].bestCombination = BestWithoutMemo(searches[s])

\* the occurrences of a key, by their place in the index, that no in-use
\* flashcard of the key covers
UnusedIndices(key) ==
    { i \in 1..Len(OccurrencesOf(key)) :
        ~\E j \in 1..Len(CardsOf(inUseClozeFlashcards, key)) :
            /\ CardsOf(inUseClozeFlashcards, key)[j].line.id = OccurrencesOf(key)[i].line.id
            /\ CardsOf(inUseClozeFlashcards, key)[j].wordIndex = OccurrencesOf(key)[i].index }

\* the result holds for the key the target number of flashcards: its in-use
\* flashcards, then as many new ones as were needed, each made from an unused
\* occurrence of its own
KeyFilled(key) ==
    LET cards == CardsOf(wordToSimpleClozeFlashcards, key)
        inUse == CardsOf(inUseClozeFlashcards, key)
        need == numFlashcardsPerWord - Len(inUse)
    IN  /\ Len(cards) = numFlashcardsPerWord
        /\ \A i \in 1..Len(inUse) :
               /\ SameText(toJsonableDict(cards[i]),
                      toJsonableDict(GetSimpleClozeFlashcard(inUse[i])))
               /\ toJsonableDict(cards[i]).inUse = "True"
        /\ \E f \in [1..need -> UnusedIndices(key)] :
               /\ \A i, j \in 1..need : i # j => f[i] # f[j]
               /\ \A i \in 1..need :
                      /\ SameText(toJsonableDict(cards[Len(inUse) + i]),
                             toJsonableDict(NewSimpleClozeFlashcard(OccurrencesOf(key)[f[i]])))
                      /\ toJsonableDict(cards[Len(inUse) + i]).inUse = "False"

\* C23: after a run, every key on the search path (fewer in-use flashcards
\* than the target, more unused occurrences and in-use flashcards than the
\* target) holds exactly the target number of flashcards: all its in-use
\* flashcards and the needed number of new ones, each from a distinct unused
\* occurrence.
SearchFillsTarget ==
    (JustRan /\ outcome \notin {"invalid lines", "IndexError"}) =>
        \A key \in RunKeys : NeedsSearch(key) => KeyFilled(key)

\* the same for the keys whose search returned a combination
FoundFillsTarget ==
    (JustRan /\ outcome \notin {"invalid lines", "IndexError"}) =>
        \A s \in 1..Len(searches) :
            searches[s].bestCombination # 0 => KeyFilled(searches[s].uniqueWordId)

\* a run filled a key that had an in-use flashcard with a new one
FilledBesideInUse ==
    /\ Completed
    /\ \E s \in 1..Len(searches) :
           /\ searches[s].bestCombination # 0
           /\ searches[s].inUseIds # <<>>

\* the result a selection algorithm left holds for no key more flashcards
\* than the larger of the target and the number of in-use flashcards of the key
WithinCap ==
    \A k \in 1..Len(call.wordToSimpleClozeFlashcards) :
        LET inUse == Len(CardsOf(call.inUseClozeFlashcards,
                                 call.wordToSimpleClozeFlashcards[k].key))
        IN  Len(call.wordToSimpleClozeFlashcards[k].cards)
                <= (IF inUse > call.numFlashcardsPerWord THEN inUse
                    ELSE call.numFlashcardsPerWord)

\* C24: under each selection algorithm (mostDifferentAlgorithm,
\* firstSentencesFirstAlgorithm, highestProportionOfNewWordsAlgorithm) no key
\* of the result holds more flashcards than max(target, number of in-use
\* flashcards of the key).
SelectionWithinCap ==
    call.stage \in {"mostDifferentAlgorithm", "firstSentencesFirstAlgorithm",
                    "highestProportionOfNewWordsAlgorithm"} => WithinCap

\* the same for mostDifferentAlgorithm and firstSentencesFirstAlgorithm
FirstAndMostDifferentWithinCap ==
    call.stage \in {"mostDifferentAlgorithm", "firstSentencesFirstAlgorithm"} => WithinCap

\* firstSentencesFirstAlgorithm filled a key beside an in-use flashcard
FirstSentencesFilledBesideInUse ==
    /\ call.stage = "firstSentencesFirstAlgorithm"
    /\ \E k \in 1..Len(call.wordToSimpleClozeFlashcards) :
           /\ Len(call.wordToSimpleClozeFlashcards[k].cards) = call.numFlashcardsPerWord
           /\ CardsOf(call.inUseClozeFlashcards,
                      call.wordToSimpleClozeFlashcards[k].key) # <<>>
           /\ \E i \in 1..Len(call.wordToSimpleClozeFlashcards[k].cards) :
                  toJsonableDict(call.wordToSimpleClozeFlashcards[k].cards[i]).inUse = "False"

\* C25: in a run of main ensureInUseClozeFlashcardsPersist never reaches its
\* abort branch: no run ends in exit(1), whatever the corpus, the target and
\* the stored file.
PersistNeverAborts == outcome # "exit"

\* a run came through the check after the selection had added a flashcard to
\* a key that holds an in-use flashcard
PersistCheckedAfterAppend ==
    /\ Completed
    /\ \E k \in 1..Len(inUseClozeFlashcards) :
           Len(CardsOf(wordToSimpleClozeFlashcards, inUseClozeFlashcards[k].key))
               > Len(inUseClozeFlashcards[k].cards)

\* by the criterion of an order, the item a of a result set comes strictly
\* before the item b: the smaller word, the more occurrences in the corpus,
\* the fewer flashcards flagged in use
Precedes(order, a, b) ==
    IF order = ALPHABETICAL THEN StrLess(a.key, b.key)
    ELSE IF order = FREQUENCY
    THEN Len(call.uniqueWordIdToWordObjects[
                 KeyIndex(call.uniqueWordIdToWordObjects, a.key)].words)
             > Len(call.uniqueWordIdToWordObjects[
                       KeyIndex(call.uniqueWordIdToWordObjects, b.key)].words)
    ELSE Cardinality({i \in 1..Len(a.cards) : a.cards[i].inUse})
             < Cardinality({i \in 1..Len(b.cards) : b.cards[i].inUse})

\* a comes before b by the first order of the list that tells them apart
RECURSIVE PrecedesByList(_, _, _)
PrecedesByList(orders, a, b) ==
    /\ orders # <<>>
    /\ \/ Precedes(Head(orders), a, b)
       \/ /\ ~Precedes(Head(orders), b, a)
          /\ PrecedesByList(Tail(orders), a, b)

\* the loop over outputOrder came to its end
KeysOrdered == call.stage = "ordered" /\ ~call.ordered.raises

OutputOrderUnchanged == [][runs' # runs => outputOrder' = outputOrder]_vars

\* a call of main leaves a list that reads the same in both directions, such
\* as the default list of the one order ALPHABETICAL, as it was, and a call
\* that stops before the loop over the orders leaves any list as it was
PalindromeOrderUnchanged ==
    [][(/\ runs' # runs
        /\ \/ outputOrder = Reverse(outputOrder)
           \/ outcome' \in {"invalid lines", "IndexError", "exit"})
          => outputOrder' = outputOrder]_vars

\* the stored currentConfigIndex is an int inside the stored list
IndexInside(appConfig) ==
    /\ appConfig.exists
    /\ appConfig.currentConfigIndex.isInt
    /\ 0 <= appConfig.currentConfigIndex.value
    /\ appConfig.currentConfigIndex.value < Len(appConfig.configs)

\* the stored currentConfigIndex refers to the config of the name
RefersTo(appConfig, name) ==
    /\ IndexInside(appConfig)
    /\ appConfig.configs[appConfig.currentConfigIndex.value + 1].name = name

\* C29: getCurrentConfigName returns for every stored appConfig.json, and
\* afterwards the stored currentConfigIndex refers to the config whose name
\* it returned (the config at index 0 when the stored index was outside the
\* list).
CurrentNameReturned ==
    call.stage = "named" =>
        /\ call.raises = "none"
        /\ RefersTo(call.disk.appConfig, call.value)

\* C29, for the stored indices the code handles -- no int, or an int inside
\* the list: the name is returned and the stored index refers to it.
CurrentNameReturnedInside ==
    call.stage = "named"
    /\ (~call.before.appConfig.exists
        \/ ~call.before.appConfig.currentConfigIndex.isInt
        \/ IndexInside(call.before.appConfig)) =>
        /\ call.raises = "none"
        /\ RefersTo(call.disk.appConfig, call.value)

\* C29: an index that was no int has been reset and the first name returned
NotIntIndexReset ==
    /\ call.stage = "named"
    /\ call.before.appConfig.exists
    /\ ~call.before.appConfig.currentConfigIndex.isInt
    /\ Len(call.before.appConfig.configs) = 2
    /\ call.raises = "none"
    /\ call.disk.appConfig.currentConfigIndex = IntIndex(0)
    /\ call.value = call.before.appConfig.configs[1].name

\* the path of the default config file
DefaultPath == InGeneratorConfigs(JsonFileName(DefaultName))

\* the requested config file was missing before the call
RequestedMissing == call.before.files[call.configFilePath] = MissingFile

\* C30: getConfigJson returns for every stored state, and a requested file
\* that was missing is afterwards a copy of the default config, whether or
\* not the default config file was there.
ConfigJsonReturns ==
    call.stage = "read" =>
        /\ call.raises = "none"
        /\ RequestedMissing =>
               /\ call.disk.files[call.configFilePath].state = "json"
               /\ call.disk.files[DefaultPath].state = "json" =>
                      call.disk.files[call.configFilePath] = call.disk.files[DefaultPath]

\* C30, with a default config file that is a JSON object: the call returns
\* and a requested file that was missing is afterwards a copy of it.
ConfigJsonReturnsBesideDefault ==
    call.stage = "read" /\ call.before.files[DefaultPath].state = "json" =>
        /\ call.raises = "none"
        /\ RequestedMissing =>
               call.disk.files[call.configFilePath] = call.before.files[DefaultPath]

\* C30: a missing file has been reset to a default config that holds a key
MissingFileReset ==
    /\ call.stage = "read"
    /\ RequestedMissing
    /\ call.raises = "none"
    /\ call.disk.files[call.configFilePath] = JsonObject(PerWord(1))
    /\ call.value = JsonObject(<<>>)

\* the command was a setting update issued while the current config, as
\* getCurrentConfigName gave it, was "default"
UpdatedDefault == call.stage = "updated" /\ call.configName = DefaultName

\* the name of the config the stored currentConfigIndex refers to
CurrentName(appConfig) == appConfig.configs[appConfig.currentConfigIndex.value + 1].name

\* the config list when the update was issued, the current name read
ListWhenIssued == getConfigList(getCurrentConfigName(call.before).disk).value

\* the update went to a new config: the stored index refers to a config whose
\* name was not in the config list when the update was issued, and the file
\* of that config is the default config with the setting of the update
AppliedToNewConfig ==
    /\ call.raises = "none"
    /\ IndexInside(call.disk.appConfig)
    /\ CurrentName(call.disk.appConfig) # DefaultName
    /\ ~InSeq(CurrentName(call.disk.appConfig), ListWhenIssued)
    /\ call.disk.files[getConfigFilePath(call.disk, CurrentName(call.disk.appConfig)).value]
           = JsonObject(Update(call.before.files[DefaultPath].json,
                               "numFlashcardsPerWord", call.count))

\* C28: a setting update issued while the current config is "default" leaves
\* the default config file as it was, creates a config whose name was not in
\* the config list, makes it the current config and applies the update to
\* it.
DefaultNeverUpdated ==
    UpdatedDefault =>
        /\ call.disk.files[DefaultPath] = call.before.files[DefaultPath]
        /\ AppliedToNewConfig

\* C28, with a default config file that is a JSON object: the update leaves
\* it as it was and goes to a new current config.
DefaultNeverUpdatedBesideDefault ==
    UpdatedDefault /\ call.before.files[DefaultPath].state = "json" =>
        /\ call.disk.files[DefaultPath] = call.before.files[DefaultPath]
        /\ AppliedToNewConfig

\* C28: whatever the update did, the default config file is as it was
DefaultFileUnchanged ==
    UpdatedDefault => call.disk.files[DefaultPath] = call.before.files[DefaultPath]

\* C28: an update of the default config went to the second new config,
\* the first name being taken, and the default config kept its own setting
UpdateWentToSecondNewConfig ==
    /\ UpdatedDefault
    /\ call.raises = "none"
    /\ call.before.files[DefaultPath] = JsonObject(PerWord(1))
    /\ call.count = 2
    /\ CurrentName(call.disk.appConfig) = NewConfigName(2)
    /\ call.disk.files[InGeneratorConfigs(JsonFileName(NewConfigName(2)))]
           = JsonObject(PerWord(2))
    /\ call.disk.files[DefaultPath] = JsonObject(PerWord(1))

=============================================================================
